---- MODULE Spec2Model ----
(***************************************************************************)
(* Employment-support checklist: the draft / record store (DataService on  *)
(* localStorage), the evaluation session (React state of                   *)
(* EmploymentSupportChecklist), the autosave interval and the scoring      *)
(* functions, modelled from src/src/EmploymentSupportChecklist.tsx.        *)
(*                                                                         *)
(* Conventions.                                                            *)
(*  - A composite key `${evaluator}-${cat}-${item}` is the tuple           *)
(*    <<evaluator, cat, item>> (0-based indexes as in the source); a       *)
(*    sub-check key adds the sub index.  Evaluator names hold no '-', so   *)
(*    key.split('-')[0] is the first component.                            *)
(*  - A JS object used as a sparse map is a function whose DOMAIN is the   *)
(*    set of its keys; {} is <<>>.                                         *)
(*  - A JS number that may be fractional is the reduced fraction <<n, d>>; *)
(*    integers that stay integers (totalScore, completionRate) are Int.    *)
(*  - JSON.stringify / JSON.parse of the stored collections is lossless on *)
(*    these values (arrays of plain objects of strings, finite numbers and *)
(*    booleans), so localStorage holds the collections themselves.         *)
(*  - Date.now() / new Date().toISOString() is the logical clock `now`,    *)
(*    advanced by every handler that stamps a stored entity.               *)
(***************************************************************************)
EXTENDS Integers, Sequences, FiniteSets, TLC

VARIABLES
  localStorage,      \* [targets, records, drafts, goals]: the persisted collections
  supportTargets,    \* useState: in-memory copy of the targets
  evaluationRecords, \* useState: in-memory copy of the records
  evaluationDrafts,  \* useState: in-memory copy of the drafts
  selectedTargetId,  \* useState: '' when none is selected
  currentDate,       \* useState
  evaluations,       \* useState: key -> raw response
  detailChecks,      \* useState: sub-check key -> BOOLEAN
  comments,          \* useState: key -> text
  activeEvaluator,   \* useState
  autoSaveInterval,  \* the interval of the autosave effect and the closure of its callback
  now,               \* the clock read by Date.now()
  elapsed,           \* minutes since the autosave interval was (re)armed
  sinceAutoSave,     \* minutes since the autosave callback last ran; -1 while it has not run
                     \* since the session last got a target and a response
  lastOp,            \* history: the handler that ran last, with its arguments and outcome
  steps,             \* history: the number of handlers that have run
  isGenerating,          \* useState: the goal-recommendation request is running
  isGeneratingAnalysis,  \* useState: the AI analysis is being generated
  isAnalysisLoading,     \* useState: the difference analysis is loading
  analysisCompleted,     \* useState
  aiAnalysisGenerated,   \* useState
  aiGeneralObservation,  \* useState: where the shown observation came from ('' when none)
  aiConsiderations,      \* useState: where the shown considerations came from
  geminiAnalysisResult,  \* useState: where the difference analysis came from
  aiGoalRecommendations, \* useState: where the goal recommendations came from
  pending,               \* the async handlers suspended at their await, oldest first,
                         \* each with the session its request data was built from
  saveMessage,           \* useState: the message of the last save ('' when none is shown)
  messageTimeouts        \* the setTimeout(() => setSaveMessage(''), 3000) calls not run yet

vars == <<localStorage, supportTargets, evaluationRecords, evaluationDrafts,
          selectedTargetId, currentDate, evaluations, detailChecks, comments,
          activeEvaluator, autoSaveInterval, now, elapsed, sinceAutoSave, lastOp, steps,
          isGenerating, isGeneratingAnalysis, isAnalysisLoading, analysisCompleted,
          aiAnalysisGenerated, aiGeneralObservation, aiConsiderations,
          geminiAnalysisResult, aiGoalRecommendations, pending,
          saveMessage, messageTimeouts>>

\* the state of the save message
noticeVars == <<saveMessage, messageTimeouts>>

\* the state of the AI features
aiVars == <<isGenerating, isGeneratingAnalysis, isAnalysisLoading, analysisCompleted,
            aiAnalysisGenerated, aiGeneralObservation, aiConsiderations,
            geminiAnalysisResult, aiGoalRecommendations, pending>>

-----------------------------------------------------------------------------
(* Bounds of the model *)

\* handlers (user events and interval callbacks) followed from the mount
MaxSteps == 5
\* minutes of wall-clock time followed by the timed specification
MaxMinutes == 7

\* evaluation dates the user types into the date input
Dates == {"2024-04-01", "2024-04-02"}
\* comment texts the user types
Texts == {"memo"}
\* values the user types into the required fields of the target form ('' is
\* a field left empty)
UserIds == {"", "U2024003"}
Names == {"", "Suzuki"}
Birthdates == {"", "2000-01-01"}
\* goal labels the user picks in the goal form ('' is no choice)
GoalLabels == {"", "goal A", "goal B"}

-----------------------------------------------------------------------------
(* Static configuration *)

Evaluators == {"self", "staff", "family"}

\* item.type of the checklist items
r5 == "radio_5_level"
r5s == "radio_5_level_with_sub_check"
r2s == "radio_2_level_with_sub_check"

\* The checklist: the three categories with the types of their 11, 8 and 15
\* items in order (names abbreviated to the numeral, texts left out).
categories ==
  << [name |-> "I",   items |-> << r5, r5, r5, r5, r5, r5s, r5s, r5s, r5, r5, r2s >>],
     [name |-> "II",  items |-> << r5, r5, r5, r5s, r5s, r5s, r5, r2s >>],
     [name |-> "III", items |-> << r5, r5s, r5s, r5s, r5s, r5s, r5, r5s, r5, r5, r5, r5s,
                                   r5, r5s, r5s >>] >>

CatIndexes == 0 .. (Len(categories) - 1)
ItemIndexes(c) == 0 .. (Len(categories[c + 1].items) - 1)
itemType(c, i) == categories[c + 1].items[i + 1]

\* item.options.length
optionCount(c, i) == IF itemType(c, i) = "radio_2_level_with_sub_check" THEN 2 ELSE 5

\* item.subCheckTrigger: 5-level items with sub-checks show them for 3, 4, 5;
\* the 2-level item for 2; plain items have none.
subCheckTrigger(c, i) ==
  CASE itemType(c, i) = "radio_5_level_with_sub_check" -> {3, 4, 5}
    [] itemType(c, i) = "radio_2_level_with_sub_check" -> {2}
    [] OTHER -> {}

\* 5 * 60 * 1000 ms, in minutes
AutoSavePeriod == 5

\* DataService.initializeWithSampleData
sampleTargets ==
  << [id |-> "target_sample_1", userId |-> "U2024001", name |-> "Tanaka",
      birthdate |-> "1999-03-15"],
     [id |-> "target_sample_2", userId |-> "U2024002", name |-> "Sato",
      birthdate |-> "1994-07-22"] >>

-----------------------------------------------------------------------------
(* Helpers for JS arrays and numbers *)

\* Array.prototype.findIndex, 1-based; 0 stands for -1
FindIndex(s, P(_)) ==
  IF \E i \in 1 .. Len(s) : P(s[i])
    THEN CHOOSE i \in 1 .. Len(s) : P(s[i]) /\ \A j \in 1 .. (i - 1) : ~P(s[j])
    ELSE 0

RECURSIVE GCD(_, _)
GCD(a, b) == IF b = 0 THEN a ELSE GCD(b, a % b)

\* the number n / d (d > 0) in lowest terms
Frac(n, d) == LET g == GCD(IF n < 0 THEN -n ELSE n, d) IN << n \div g, d \div g >>

\* Math.round(n / d) for d > 0: halves round up
MathRound(n, d) == (2 * n + d) \div (2 * d)

RECURSIVE SumSeq(_)
SumSeq(s) == IF s = << >> THEN 0 ELSE Head(s) + SumSeq(Tail(s))

-----------------------------------------------------------------------------
(* Scoring on the in-memory session (getEvaluation .. calculateCategoryAverage) *)

Key(evaluator, c, i) == << evaluator, c, i >>

\* evaluations[key] || 0
getEvaluation(ev, evaluator, c, i) ==
  IF Key(evaluator, c, i) \in DOMAIN ev THEN ev[Key(evaluator, c, i)] ELSE 0

\* the transform without the branch of the 2-level items
getEvaluationScoreFiveLevelOnly(ev, evaluator, c, i) ==
  LET rawScore == getEvaluation(ev, evaluator, c, i) IN
  IF rawScore = 0 THEN 0 ELSE 6 - rawScore

getEvaluationScore(ev, evaluator, c, i) ==
  LET rawScore == getEvaluation(ev, evaluator, c, i) IN
  IF rawScore = 0 THEN 0
  ELSE IF itemType(c, i) = "radio_2_level_with_sub_check"
    THEN (IF rawScore = 1 THEN 2 ELSE 1)
    ELSE 6 - rawScore

\* categoryItems.map(getEvaluationScore).filter(score => score > 0)
categoryScoresOf(ev, evaluator, c) ==
  SelectSeq([ k \in 1 .. Len(categories[c + 1].items) |->
                getEvaluationScore(ev, evaluator, c, k - 1) ],
            LAMBDA score : score > 0)

\* an average that reads the evaluator from the session instead of its argument
calculateCategoryAverageOfActive(ev, c, evaluator) ==
  LET scores == categoryScoresOf(ev, activeEvaluator, c) IN
  IF Len(scores) = 0 THEN Frac(0, 1)
  ELSE Frac(MathRound(SumSeq(scores) * 100, Len(scores)), 100)

\* calculateCategoryAverage(categoryIndex, evaluatorType), on the responses ev
calculateCategoryAverage(ev, c, evaluator) ==
  LET scores == categoryScoresOf(ev, evaluator, c) IN
  IF Len(scores) = 0 THEN Frac(0, 1)
  ELSE Frac(MathRound(SumSeq(scores) * 100, Len(scores)), 100)

\* totalItems of calculateCompletionRate
totalItems == SumSeq([ k \in 1 .. Len(categories) |-> Len(categories[k].items) ])

\* a rate that counts the answers of every evaluator
calculateCompletionRateAllEvaluators(ev, evaluator) ==
  LET completedItems == Cardinality({ key \in DOMAIN ev : ev[key] > 0 })
  IN MathRound(completedItems * 100, totalItems)

calculateCompletionRate(ev, evaluator) ==
  LET completedItems == Cardinality({ key \in DOMAIN ev : key[1] = evaluator /\ ev[key] > 0 })
  IN MathRound(completedItems * 100, totalItems)

-----------------------------------------------------------------------------
(* DataService: the collections in localStorage *)

getSupportTargets == localStorage.targets
getEvaluationRecords == localStorage.records
getEvaluationDrafts == localStorage.drafts

\* the composite key of a draft or record
SameTriple(a, b) ==
  /\ a.targetId = b.targetId
  /\ a.evaluationDate = b.evaluationDate
  /\ a.evaluator = b.evaluator

\* the spread in the other order, { ...draft, ...drafts[existingIndex] }: the stored data stays
mergeDraftKeepExisting(existing, draft, t) ==
  [ existing EXCEPT !.updatedAt = t, !.lastSaved = t ]

\* { ...drafts[existingIndex], ...draft, updatedAt: now, lastSaved: now }
mergeDraft(existing, draft, t) ==
  [ id |-> existing.id, createdAt |-> existing.createdAt,
    targetId |-> draft.targetId, targetName |-> draft.targetName,
    evaluationDate |-> draft.evaluationDate, evaluator |-> draft.evaluator,
    evaluations |-> draft.evaluations, subChecks |-> draft.subChecks,
    comments |-> draft.comments, completionRate |-> draft.completionRate,
    updatedAt |-> t, lastSaved |-> t ]

\* { ...draft, id, createdAt: now, updatedAt: now, lastSaved: now }
newDraft(draft, t) ==
  [ id |-> t, createdAt |-> t,
    targetId |-> draft.targetId, targetName |-> draft.targetName,
    evaluationDate |-> draft.evaluationDate, evaluator |-> draft.evaluator,
    evaluations |-> draft.evaluations, subChecks |-> draft.subChecks,
    comments |-> draft.comments, completionRate |-> draft.completionRate,
    updatedAt |-> t, lastSaved |-> t ]

\* a store with one draft slot: the saved draft replaces the collection
saveEvaluationDraftSingle(drafts, draft, t) == << newDraft(draft, t) >>

\* saveEvaluationDraft without the lookup of an existing draft: always pushes
saveEvaluationDraftPush(drafts, draft, t) == Append(drafts, newDraft(draft, t))

\* DataService.saveEvaluationDraft: the drafts it writes back
saveEvaluationDraft(drafts, draft, t) ==
  LET existingIndex == FindIndex(drafts, LAMBDA d : SameTriple(d, draft)) IN
  IF existingIndex > 0
    THEN [ drafts EXCEPT ![existingIndex] = mergeDraft(@, draft, t) ]
    ELSE Append(drafts, newDraft(draft, t))

\* a lookup that falls back to the first stored draft when the id is absent
loadEvaluationDraftOrFirst(drafts, draftId) ==
  LET k == FindIndex(drafts, LAMBDA d : d.id = draftId) IN
  IF k > 0 THEN << drafts[k] >> ELSE IF drafts = << >> THEN << >> ELSE << drafts[1] >>

\* DataService.loadEvaluationDraft: the drafts with that id (find takes the first)
loadEvaluationDraft(drafts, draftId) ==
  LET k == FindIndex(drafts, LAMBDA d : d.id = draftId) IN
  IF k > 0 THEN << drafts[k] >> ELSE << >>

\* a delete that drops every draft of the target of the draft with that id
deleteEvaluationDraftsOfTarget(drafts, draftId) ==
  SelectSeq(drafts, LAMBDA d : \A x \in { drafts[k] : k \in 1 .. Len(drafts) } :
                                 x.id = draftId => d.targetId # x.targetId)

\* DataService.deleteEvaluationDraft: drafts.filter(d => d.id !== draftId)
deleteEvaluationDraft(drafts, draftId) ==
  SelectSeq(drafts, LAMBDA d : d.id # draftId)

\* DataService.findEvaluationDraft: the drafts with that triple (find takes the first)
findEvaluationDraft(drafts, targetId, evaluationDate, evaluator) ==
  LET k == FindIndex(drafts, LAMBDA d : d.targetId = targetId
                                        /\ d.evaluationDate = evaluationDate
                                        /\ d.evaluator = evaluator) IN
  IF k > 0 THEN << drafts[k] >> ELSE << >>

\* DataService.saveEvaluationRecord: records.push({ ...record, id, createdAt, updatedAt })
saveEvaluationRecordStore(records, record, t) ==
  Append(records,
    [ id |-> t, createdAt |-> t, updatedAt |-> t,
      targetId |-> record.targetId, targetName |-> record.targetName,
      evaluationDate |-> record.evaluationDate, evaluator |-> record.evaluator,
      evaluations |-> record.evaluations, subChecks |-> record.subChecks,
      comments |-> record.comments, totalScore |-> record.totalScore,
      categoryScores |-> record.categoryScores ])

\* DataService.deleteEvaluationRecord
deleteEvaluationRecord(records, id) ==
  SelectSeq(records, LAMBDA r : r.id # id)

\* DataService.deleteEvaluationRecordsByTarget
deleteEvaluationRecordsByTarget(records, targetId) ==
  SelectSeq(records, LAMBDA r : r.targetId # targetId)

\* saveSupportGoal without the lookup of an existing goal: always pushes
saveSupportGoalPush(goals, goal, t) ==
  Append(goals,
    [ id |-> t, createdAt |-> t,
      targetId |-> goal.targetId, targetName |-> goal.targetName,
      goalDate |-> goal.goalDate, selectedGoal |-> goal.selectedGoal,
      updatedAt |-> t ])

\* DataService.saveSupportGoal: upsert by (targetId, goalDate); the id of a new
\* goal (clock and random suffix) is the clock
saveSupportGoal(goals, goal, t) ==
  LET existingIndex == FindIndex(goals, LAMBDA g : g.targetId = goal.targetId
                                                   /\ g.goalDate = goal.goalDate) IN
  IF existingIndex > 0
    THEN [ goals EXCEPT ![existingIndex] =
             [ id |-> @.id, createdAt |-> @.createdAt,
               targetId |-> goal.targetId, targetName |-> goal.targetName,
               goalDate |-> goal.goalDate, selectedGoal |-> goal.selectedGoal,
               updatedAt |-> t ] ]
    ELSE Append(goals,
           [ id |-> t, createdAt |-> t,
             targetId |-> goal.targetId, targetName |-> goal.targetName,
             goalDate |-> goal.goalDate, selectedGoal |-> goal.selectedGoal,
             updatedAt |-> t ])

\* DataService.saveSupportTarget: targets.push({ ...target, id, createdAt, updatedAt });
\* the id (clock and random suffix) is the clock.  Of the fields of a target
\* the model keeps the id and the three required ones.
saveSupportTarget(targets, target, t) ==
  Append(targets,
    [ id |-> "target_" \o ToString(t), userId |-> target.userId, name |-> target.name,
      birthdate |-> target.birthdate ])

\* DataService.updateSupportTarget: the targets it leaves (unchanged when the id is absent)
updateSupportTarget(targets, id, updates) ==
  LET index == FindIndex(targets, LAMBDA t : t.id = id) IN
  IF index = 0 THEN targets
  ELSE [ targets EXCEPT ![index] =
           [ id |-> @.id, userId |-> updates.userId, name |-> updates.name,
             birthdate |-> updates.birthdate ] ]

\* a cascade that also drops the drafts and goals of the target
deleteSupportTargetCascadeAll(store, id) ==
  LET filteredTargets == SelectSeq(store.targets, LAMBDA t : t.id # id) IN
  IF Len(filteredTargets) = Len(store.targets) THEN store
  ELSE [ store EXCEPT !.targets = filteredTargets,
                      !.records = deleteEvaluationRecordsByTarget(store.records, id),
                      !.drafts = SelectSeq(store.drafts, LAMBDA d : d.targetId # id),
                      !.goals = SelectSeq(store.goals, LAMBDA g : g.targetId # id) ]

\* DataService.deleteSupportTarget: the store it leaves (unchanged when the id is absent)
deleteSupportTarget(store, id) ==
  LET filteredTargets == SelectSeq(store.targets, LAMBDA t : t.id # id) IN
  IF Len(filteredTargets) = Len(store.targets) THEN store
  ELSE [ store EXCEPT !.targets = filteredTargets,
                      !.records = deleteEvaluationRecordsByTarget(store.records, id) ]

-----------------------------------------------------------------------------
(* The session's derived values and the autosave effect *)

\* supportTargets.find(target => target.id === selectedTargetId)
findTarget(targets, id) ==
  LET k == FindIndex(targets, LAMBDA t : t.id = id) IN
  IF k > 0 THEN [ found |-> TRUE, name |-> targets[k].name ]
  ELSE [ found |-> FALSE, name |-> "" ]

\* what one render's saveDraft closes over
closureOf(sel, targets, date, evaluator, ev, checks, cmts) ==
  [ selectedTargetId |-> sel, selectedTarget |-> findTarget(targets, sel),
    currentDate |-> date, activeEvaluator |-> evaluator,
    evaluations |-> ev, detailChecks |-> checks, comments |-> cmts ]

currentClosure ==
  closureOf(selectedTargetId, supportTargets, currentDate, activeEvaluator,
            evaluations, detailChecks, comments)

\* getCurrentRecord(evaluatorType): evaluationRecords.find(...) (<< >> for undefined)
getCurrentRecord(evaluatorType) ==
  LET k == FindIndex(evaluationRecords, LAMBDA record :
                       record.targetId = selectedTargetId
                       /\ record.evaluationDate = currentDate
                       /\ record.evaluator = evaluatorType) IN
  IF k > 0 THEN << evaluationRecords[k] >> ELSE << >>

\* getCurrentDraft(evaluatorType): evaluationDrafts.find(...) (<< >> for undefined)
getCurrentDraft(evaluatorType) ==
  LET k == FindIndex(evaluationDrafts, LAMBDA draft :
                       draft.targetId = selectedTargetId
                       /\ draft.evaluationDate = currentDate
                       /\ draft.evaluator = evaluatorType) IN
  IF k > 0 THEN << evaluationDrafts[k] >> ELSE << >>

noInterval == [ set |-> FALSE, closure |-> closureOf("", << >>, "", "", << >>, << >>, << >>) ]

\* the effect body: no interval without a target or with an empty response map
autosaveArmed(sel, ev) == ~(sel = "" \/ DOMAIN ev = {})

\* useLayoutEffect(..., [selectedTargetId, evaluations, detailChecks, comments,
\* activeEvaluator]): when a dependency changed, the cleanup clears the old
\* interval and the effect arms a new one that calls this render's saveDraft.
autosaveEffect(rerun) ==
  /\ autoSaveInterval' =
       IF rerun
         THEN IF autosaveArmed(selectedTargetId', evaluations')
                THEN [ set |-> TRUE,
                       closure |-> closureOf(selectedTargetId', supportTargets', currentDate',
                                             activeEvaluator', evaluations', detailChecks',
                                             comments') ]
                ELSE noInterval
         ELSE autoSaveInterval
  /\ elapsed' = IF rerun THEN 0 ELSE elapsed
  /\ sinceAutoSave' =
       IF autosaveArmed(selectedTargetId', evaluations') THEN sinceAutoSave ELSE -1

storeVars == << localStorage, evaluationRecords, evaluationDrafts >>
sessionVars == << selectedTargetId, currentDate, evaluations, detailChecks, comments,
                  activeEvaluator >>

-----------------------------------------------------------------------------
(* Inputs the modelled user gives *)

\* items the user answers, and the options clicked on them
AnswerItems == { << 0, 5 >> }
\* the first and the last option of the item
AnswerScores(c, i) == { 1, optionCount(c, i) }
\* sub-check boxes the user ticks (sub index 0 of an item showing its sub-checks)
SubIndexes == {0}
\* evaluator buttons the user clicks
EvaluatorButtons == { "self", "staff" }
\* items the user comments on
CommentItems == { << 0, 5 >> }

Op(name, id, ok) == [ op |-> name, id |-> id, ok |-> ok, target |-> "", arg |-> << >> ]
OpOnTarget(name, target, ok) ==
  [ op |-> name, id |-> 0, ok |-> ok, target |-> target, arg |-> << >> ]
OpWithForm(name, target, ok, form) ==
  [ op |-> name, id |-> 0, ok |-> ok, target |-> target, arg |-> form ]

\* one more handler runs; none runs once the component is unmounted
asyncStep == lastOp.op # "unmount" /\ steps < MaxSteps /\ steps' = steps + 1

\* the same for a handler that does not touch the AI features
saveStep == asyncStep /\ UNCHANGED aiVars

\* the same for a handler that sets no save message either
step == saveStep /\ UNCHANGED noticeVars

\* setSaveMessage(message); setTimeout(() => setSaveMessage(''), 3000)
showMessage(message) ==
  /\ saveMessage' = message
  /\ messageTimeouts' = messageTimeouts + 1

\* the AI state after the useState initialisers
\* (and of the save message)
aiIdle ==
  /\ isGenerating = FALSE
  /\ isGeneratingAnalysis = FALSE
  /\ isAnalysisLoading = FALSE
  /\ analysisCompleted = FALSE
  /\ aiAnalysisGenerated = FALSE
  /\ aiGeneralObservation = ""
  /\ aiConsiderations = ""
  /\ geminiAnalysisResult = ""
  /\ aiGoalRecommendations = ""
  /\ pending = << >>
  /\ saveMessage = ""
  /\ messageTimeouts = 0

-----------------------------------------------------------------------------
(* Session handlers *)

\* handleEvaluation: setEvaluations(prev => ({ ...prev, [key]: score }))
handleEvaluation(c, i, score) ==
  LET key == Key(activeEvaluator, c, i) IN
  /\ evaluations' = [ k \in DOMAIN evaluations \cup {key} |->
                        IF k = key THEN score ELSE evaluations[k] ]
  /\ UNCHANGED << storeVars, supportTargets, selectedTargetId, currentDate,
                  detailChecks, comments, activeEvaluator, now >>
  /\ lastOp' = Op("handleEvaluation", 0, TRUE)
  /\ autosaveEffect(TRUE)
  /\ step

\* handleSubCheck, offered while the item's response shows its sub-checks
handleSubCheck(c, i, sub, checked) ==
  LET key == << activeEvaluator, c, i, sub >> IN
  /\ getEvaluation(evaluations, activeEvaluator, c, i) \in subCheckTrigger(c, i)
  /\ detailChecks' = [ k \in DOMAIN detailChecks \cup {key} |->
                         IF k = key THEN checked ELSE detailChecks[k] ]
  /\ UNCHANGED << storeVars, supportTargets, selectedTargetId, currentDate,
                  evaluations, comments, activeEvaluator, now >>
  /\ lastOp' = Op("handleSubCheck", 0, TRUE)
  /\ autosaveEffect(TRUE)
  /\ step

\* handleComment
handleComment(c, i, text) ==
  LET key == Key(activeEvaluator, c, i) IN
  /\ comments' = [ k \in DOMAIN comments \cup {key} |->
                     IF k = key THEN text ELSE comments[k] ]
  /\ UNCHANGED << storeVars, supportTargets, selectedTargetId, currentDate,
                  evaluations, detailChecks, activeEvaluator, now >>
  /\ lastOp' = Op("handleComment", 0, TRUE)
  /\ autosaveEffect(TRUE)
  /\ step

\* selecting a target with selectedTargetId missing from the effect's dependencies
selectTargetKeepInterval(id) ==
  /\ id # selectedTargetId
  /\ selectedTargetId' = id
  /\ UNCHANGED << storeVars, supportTargets, currentDate, evaluations, detailChecks,
                  comments, activeEvaluator, now >>
  /\ lastOp' = Op("selectTarget", 0, TRUE)
  /\ autosaveEffect(FALSE)
  /\ step

\* target selector onClick: setSelectedTargetId(target.id), for another target
\* than the selected one (setting the same id changes nothing)
selectTarget(id) ==
  /\ id # selectedTargetId
  /\ selectedTargetId' = id
  /\ UNCHANGED << storeVars, supportTargets, currentDate, evaluations, detailChecks,
                  comments, activeEvaluator, now >>
  /\ lastOp' = Op("selectTarget", 0, TRUE)
  /\ autosaveEffect(TRUE)
  /\ step

\* date input onChange: setCurrentDate(e.target.value); not a dependency of the effect
setCurrentDate(d) ==
  /\ d # currentDate
  /\ currentDate' = d
  /\ UNCHANGED << storeVars, supportTargets, selectedTargetId, evaluations, detailChecks,
                  comments, activeEvaluator, now >>
  /\ lastOp' = Op("setCurrentDate", 0, TRUE)
  /\ autosaveEffect(FALSE)
  /\ step

\* evaluator button onClick: setActiveEvaluator(evaluator.key)
setActiveEvaluator(e) ==
  /\ e # activeEvaluator
  /\ activeEvaluator' = e
  /\ UNCHANGED << storeVars, supportTargets, selectedTargetId, currentDate, evaluations,
                  detailChecks, comments, now >>
  /\ lastOp' = Op("setActiveEvaluator", 0, TRUE)
  /\ autosaveEffect(TRUE)
  /\ step

-----------------------------------------------------------------------------
(* Drafts *)

\* draftData of saveDraft, from the state its closure holds
draftData(c) ==
  [ targetId |-> c.selectedTargetId, targetName |-> c.selectedTarget.name,
    evaluationDate |-> c.currentDate, evaluator |-> c.activeEvaluator,
    evaluations |-> c.evaluations, subChecks |-> c.detailChecks,
    comments |-> c.comments,
    completionRate |-> calculateCompletionRate(c.evaluations, c.activeEvaluator) ]

\* the id of the draft saveEvaluationDraft returns
savedDraftId(drafts, draft) ==
  drafts[FindIndex(drafts, LAMBDA d : SameTriple(d, draft))].id

\* saveDraft without setEvaluationDrafts(DataService.getEvaluationDrafts())
saveDraftFromNoRefresh(c, name) ==
  IF c.selectedTargetId = "" \/ ~c.selectedTarget.found
    THEN /\ UNCHANGED << storeVars, now, noticeVars >>
         /\ lastOp' = Op(name, 0, FALSE)
    ELSE /\ localStorage' = [ localStorage EXCEPT
                                !.drafts = saveEvaluationDraft(@, draftData(c), now) ]
         /\ now' = now + 1
         /\ UNCHANGED << evaluationRecords, evaluationDrafts >>
         /\ showMessage("draft saved")
         /\ lastOp' = Op(name, savedDraftId(localStorage'.drafts, draftData(c)), TRUE)

\* saveDraft as run from the closure c; name tells the button from the interval
saveDraftFrom(c, name) ==
  IF c.selectedTargetId = "" \/ ~c.selectedTarget.found
    THEN \* alert (no target), return
         /\ UNCHANGED << storeVars, now, noticeVars >>
         /\ lastOp' = Op(name, 0, FALSE)
    ELSE /\ localStorage' = [ localStorage EXCEPT
                                !.drafts = saveEvaluationDraft(@, draftData(c), now) ]
         /\ evaluationDrafts' = localStorage'.drafts
         /\ now' = now + 1
         /\ UNCHANGED evaluationRecords
         /\ showMessage("draft saved")
         /\ lastOp' = Op(name, savedDraftId(localStorage'.drafts, draftData(c)), TRUE)

\* the temporary-save button (disabled without a selected target) calls this render's saveDraft
saveDraft ==
  /\ selectedTargetId # ""
  /\ saveDraftFrom(currentClosure, "saveDraft")
  /\ UNCHANGED << sessionVars, supportTargets >>
  /\ autosaveEffect(FALSE)
  /\ saveStep

\* the interval callback calls the saveDraft of the render that armed it
autoSave ==
  /\ autoSaveInterval.set
  /\ saveDraftFrom(autoSaveInterval.closure, "autoSave")
  /\ UNCHANGED << sessionVars, supportTargets, autoSaveInterval >>
  /\ elapsed' = 0
  /\ sinceAutoSave' = 0
  /\ saveStep

\* loadDraft(draft), for a draft of the in-memory list.  The maps of the draft
\* are objects parsed from storage, new to the effect's dependencies, so the
\* effect runs again (loading the same list entry twice in a row would not
\* re-arm the interval; its closure is the same either way).
loadDraft(draft) ==
  /\ evaluations' = draft.evaluations
  /\ detailChecks' = draft.subChecks
  /\ comments' = draft.comments
  /\ currentDate' = draft.evaluationDate
  /\ selectedTargetId' = draft.targetId
  /\ activeEvaluator' = draft.evaluator
  /\ UNCHANGED << storeVars, supportTargets, now >>
  /\ lastOp' = Op("loadDraft", draft.id, TRUE)
  /\ autosaveEffect(TRUE)
  /\ step

\* the delete button of the draft table
deleteDraft(draftId) ==
  LET filteredDrafts == deleteEvaluationDraft(localStorage.drafts, draftId) IN
  /\ IF Len(filteredDrafts) = Len(localStorage.drafts)
       THEN /\ UNCHANGED storeVars
            /\ lastOp' = Op("deleteDraft", draftId, FALSE)
       ELSE /\ localStorage' = [ localStorage EXCEPT !.drafts = filteredDrafts ]
            /\ evaluationDrafts' = localStorage'.drafts
            /\ UNCHANGED evaluationRecords
            /\ lastOp' = Op("deleteDraft", draftId, TRUE)
  /\ UNCHANGED << sessionVars, supportTargets, now >>
  /\ autosaveEffect(FALSE)
  /\ step

-----------------------------------------------------------------------------
(* Records *)

CategoryNames == { categories[k].name : k \in 1 .. Len(categories) }
catIndexOf(name) == (CHOOSE k \in 1 .. Len(categories) : categories[k].name = name) - 1

\* draft.evaluations[key] || 0
draftRawScore(draft, c, i) ==
  IF Key(draft.evaluator, c, i) \in DOMAIN draft.evaluations
    THEN draft.evaluations[Key(draft.evaluator, c, i)] ELSE 0

\* the conversion finalizeDraft writes inline
convertedScore(c, i, rawScore) ==
  IF itemType(c, i) = "radio_2_level_with_sub_check"
    THEN (IF rawScore = 1 THEN 2 ELSE 1)
    ELSE 6 - rawScore

\* the converted scores of the items of category c with rawScore > 0, in item
\* order (the loop of categoryScores: catTotal is their sum, catCount their number)
finalizeConverted(draft, c) ==
  LET counted == SelectSeq([ k \in 1 .. Len(categories[c + 1].items) |-> k - 1 ],
                           LAMBDA i : draftRawScore(draft, c, i) > 0)
  IN [ k \in 1 .. Len(counted) |->
         convertedScore(c, counted[k], draftRawScore(draft, c, counted[k])) ]

\* totalScore of finalizeDraft: rawScore === 0 is skipped, any other is converted
finalizeTotalScore(draft) ==
  SumSeq([ k \in 1 .. Len(categories) |->
             SumSeq([ j \in 1 .. Len(categories[k].items) |->
                        LET rawScore == draftRawScore(draft, k - 1, j - 1) IN
                        IF rawScore = 0 THEN 0
                        ELSE convertedScore(k - 1, j - 1, rawScore) ]) ])

\* categoryScores of finalizeDraft: catCount > 0 ? catTotal / catCount : 0
finalizeCategoryScores(draft) ==
  [ name \in CategoryNames |->
      LET conv == finalizeConverted(draft, catIndexOf(name)) IN
      IF Len(conv) > 0 THEN Frac(SumSeq(conv), Len(conv)) ELSE Frac(0, 1) ]

\* the record with the placeholder scores of DataService.convertDraftToRecord
finalizeRecordPlaceholder(draft) ==
  [ targetId |-> draft.targetId, targetName |-> draft.targetName,
    evaluationDate |-> draft.evaluationDate, evaluator |-> draft.evaluator,
    evaluations |-> draft.evaluations, subChecks |-> draft.subChecks,
    comments |-> draft.comments,
    totalScore |-> 0,
    categoryScores |-> [ name \in CategoryNames |-> Frac(0, 1) ] ]

\* the record finalizeDraft builds from a draft
finalizeRecord(draft) ==
  [ targetId |-> draft.targetId, targetName |-> draft.targetName,
    evaluationDate |-> draft.evaluationDate, evaluator |-> draft.evaluator,
    evaluations |-> draft.evaluations, subChecks |-> draft.subChecks,
    comments |-> draft.comments,
    totalScore |-> finalizeTotalScore(draft),
    categoryScores |-> finalizeCategoryScores(draft) ]

\* DataService.convertDraftToRecord (no caller in the component): the store it
\* leaves and the record it returns (<< >> for null); the scores are the
\* placeholders it writes
convertDraftToRecord(store, draftId, t) ==
  LET found == loadEvaluationDraft(store.drafts, draftId) IN
  IF found = << >> THEN [ store |-> store, saved |-> << >> ]
  ELSE LET draft == found[1]
           evaluationRecord ==
             [ targetId |-> draft.targetId, targetName |-> draft.targetName,
               evaluationDate |-> draft.evaluationDate, evaluator |-> draft.evaluator,
               evaluations |-> draft.evaluations, subChecks |-> draft.subChecks,
               comments |-> draft.comments,
               totalScore |-> 0,
               categoryScores |-> [ name \in CategoryNames |-> Frac(0, 1) ] ]
           records == saveEvaluationRecordStore(store.records, evaluationRecord, t)
       IN [ store |-> [ store EXCEPT !.records = records,
                                     !.drafts = deleteEvaluationDraft(@, draftId) ],
            saved |-> << records[Len(records)] >> ]

\* finalizeDraft(draftId): the finalize links pass the id of a draft of the
\* in-memory list; the function takes any id
finalizeDraft(draftId) ==
  LET found == loadEvaluationDraft(localStorage.drafts, draftId) IN
  /\ IF found = << >>
       THEN \* alert (draft not found), return
            /\ UNCHANGED << storeVars, now >>
            /\ lastOp' = Op("finalizeDraft", draftId, FALSE)
       ELSE /\ localStorage' =
                 [ localStorage EXCEPT
                     !.records = saveEvaluationRecordStore(@, finalizeRecord(found[1]), now),
                     !.drafts = deleteEvaluationDraft(@, draftId) ]
            /\ evaluationRecords' = localStorage'.records
            /\ evaluationDrafts' = localStorage'.drafts
            /\ now' = now + 1
            /\ lastOp' = Op("finalizeDraft", draftId, TRUE)
  /\ UNCHANGED << sessionVars, supportTargets >>
  /\ autosaveEffect(FALSE)
  /\ step

\* a total that adds the scores of every evaluator's responses
sessionTotalScoreAllEvaluators(ev, evaluatorType) ==
  SumSeq([ k \in 1 .. Len(categories) |->
             SumSeq([ j \in 1 .. Len(categories[k].items) |->
                        getEvaluationScore(ev, "self", k - 1, j - 1)
                        + getEvaluationScore(ev, "staff", k - 1, j - 1)
                        + getEvaluationScore(ev, "family", k - 1, j - 1) ]) ])

\* totalScore of saveEvaluationRecord: the sum of getEvaluationScore over all items
sessionTotalScore(ev, evaluatorType) ==
  SumSeq([ k \in 1 .. Len(categories) |->
             SumSeq([ j \in 1 .. Len(categories[k].items) |->
                        getEvaluationScore(ev, evaluatorType, k - 1, j - 1) ]) ])

\* categoryScores of saveEvaluationRecord
sessionCategoryScores(ev, evaluatorType) ==
  [ name \in CategoryNames |-> calculateCategoryAverage(ev, catIndexOf(name), evaluatorType) ]

\* saveEvaluationRecord(activeEvaluator): the save-evaluation button (disabled without a target)
saveEvaluationRecord ==
  LET selectedTarget == findTarget(supportTargets, selectedTargetId)
      evaluationRecord ==
        [ targetId |-> selectedTargetId, targetName |-> selectedTarget.name,
          evaluationDate |-> currentDate, evaluator |-> activeEvaluator,
          evaluations |-> evaluations, subChecks |-> detailChecks, comments |-> comments,
          totalScore |-> sessionTotalScore(evaluations, activeEvaluator),
          categoryScores |-> sessionCategoryScores(evaluations, activeEvaluator) ]
  IN
  /\ selectedTargetId # ""
  /\ IF ~selectedTarget.found
       THEN /\ UNCHANGED << storeVars, now, noticeVars >>
            /\ lastOp' = Op("saveEvaluationRecord", 0, FALSE)
       ELSE /\ localStorage' = [ localStorage EXCEPT
                                   !.records = saveEvaluationRecordStore(@, evaluationRecord, now) ]
            /\ evaluationRecords' = localStorage'.records
            /\ UNCHANGED evaluationDrafts
            /\ now' = now + 1
            /\ showMessage("evaluation saved: " \o activeEvaluator)
            /\ lastOp' = Op("saveEvaluationRecord", now, TRUE)
  /\ UNCHANGED << sessionVars, supportTargets >>
  /\ autosaveEffect(FALSE)
  /\ saveStep

\* the edit button of the record table: loadEvaluationRecord(record) and
\* setActiveEvaluator(record.evaluator); the load link of the banner is the case where
\* the record already has the session's triple
loadEvaluationRecord(record) ==
  /\ evaluations' = record.evaluations
  /\ detailChecks' = record.subChecks
  /\ comments' = record.comments
  /\ currentDate' = record.evaluationDate
  /\ selectedTargetId' = record.targetId
  /\ activeEvaluator' = record.evaluator
  /\ UNCHANGED << storeVars, supportTargets, now >>
  /\ lastOp' = Op("loadEvaluationRecord", record.id, TRUE)
  /\ autosaveEffect(TRUE)
  /\ step

\* the delete button of the record table
deleteRecord(id) ==
  LET filteredRecords == deleteEvaluationRecord(localStorage.records, id) IN
  /\ IF Len(filteredRecords) = Len(localStorage.records)
       THEN /\ UNCHANGED storeVars
            /\ lastOp' = Op("deleteRecord", id, FALSE)
       ELSE /\ localStorage' = [ localStorage EXCEPT !.records = filteredRecords ]
            /\ evaluationRecords' = localStorage'.records
            /\ UNCHANGED evaluationDrafts
            /\ lastOp' = Op("deleteRecord", id, TRUE)
  /\ UNCHANGED << sessionVars, supportTargets, now >>
  /\ autosaveEffect(FALSE)
  /\ step

-----------------------------------------------------------------------------
(* Targets *)

\* handleDeleteTarget(target), confirmed, for a target of the in-memory list
handleDeleteTarget(id) ==
  LET after == deleteSupportTarget(localStorage, id) IN
  /\ localStorage' = after
  /\ IF after # localStorage
       THEN /\ supportTargets' = after.targets
            /\ selectedTargetId' = IF selectedTargetId = id THEN "" ELSE selectedTargetId
            /\ lastOp' = OpOnTarget("handleDeleteTarget", id, TRUE)
       ELSE /\ UNCHANGED << supportTargets, selectedTargetId >>
            /\ lastOp' = OpOnTarget("handleDeleteTarget", id, FALSE)
  /\ UNCHANGED << evaluationRecords, evaluationDrafts, currentDate, evaluations,
                  detailChecks, comments, activeEvaluator, now >>
  /\ autosaveEffect(selectedTargetId' # selectedTargetId)
  /\ step

\* a check of the form that only looks at the user id
formCompleteUserIdOnly(userId, name, birthdate) == userId # ""

\* handleSaveTarget: !formData.userId || !formData.name || !formData.birthdate
formComplete(userId, name, birthdate) == userId # "" /\ name # "" /\ birthdate # ""

\* handleSaveTarget with the form holding userId, name and birthdate;
\* editingId is the id of editingTarget, '' when the form adds a target
handleSaveTarget(editingId, userId, name, birthdate) ==
  LET form == [ userId |-> userId, name |-> name, birthdate |-> birthdate ] IN
  /\ IF ~formComplete(userId, name, birthdate)
       THEN \* alert (required fields), return
            /\ UNCHANGED << localStorage, supportTargets, now >>
            /\ lastOp' = OpWithForm("handleSaveTarget", editingId, FALSE,
                                    << userId, name, birthdate >>)
       ELSE IF editingId # ""
         THEN LET updated == updateSupportTarget(localStorage.targets, editingId, form) IN
              /\ localStorage' = [ localStorage EXCEPT !.targets = updated ]
              /\ supportTargets' =
                   IF \E t \in { localStorage.targets[k] : k \in 1 .. Len(localStorage.targets) } :
                        t.id = editingId
                     THEN updated ELSE supportTargets
              /\ now' = now + 1
              /\ lastOp' = OpWithForm("handleSaveTarget", editingId, TRUE,
                                      << userId, name, birthdate >>)
         ELSE /\ localStorage' = [ localStorage EXCEPT
                                     !.targets = saveSupportTarget(@, form, now) ]
              /\ supportTargets' = localStorage'.targets
              /\ now' = now + 1
              /\ lastOp' = OpWithForm("handleSaveTarget", editingId, TRUE,
                                      << userId, name, birthdate >>)
  /\ UNCHANGED << evaluationRecords, evaluationDrafts, sessionVars >>
  /\ autosaveEffect(FALSE)
  /\ step

\* handleSaveGoal with the goal form holding goalDate and selectedGoal
handleSaveGoal(goalDate, selectedGoal) ==
  LET selectedTarget == findTarget(supportTargets, selectedTargetId)
      goalData == [ targetId |-> selectedTargetId, targetName |-> selectedTarget.name,
                    goalDate |-> goalDate, selectedGoal |-> selectedGoal ]
  IN
  /\ IF selectedTargetId = "" \/ selectedGoal = "" \/ ~selectedTarget.found
       THEN \* alert, return
            /\ UNCHANGED << localStorage, now >>
            /\ lastOp' = OpWithForm("handleSaveGoal", selectedTargetId, FALSE,
                                    << goalDate, selectedGoal >>)
       ELSE /\ localStorage' = [ localStorage EXCEPT
                                   !.goals = saveSupportGoal(@, goalData, now) ]
            /\ now' = now + 1
            /\ lastOp' = OpWithForm("handleSaveGoal", selectedTargetId, TRUE,
                                    << goalDate, selectedGoal >>)
  /\ UNCHANGED << evaluationRecords, evaluationDrafts, sessionVars, supportTargets >>
  /\ autosaveEffect(FALSE)
  /\ step

\* unmounting the component runs the effect's cleanup: clearInterval(autoSaveInterval)
unmount ==
  /\ autoSaveInterval' = noInterval
  /\ elapsed' = 0
  /\ sinceAutoSave' = -1
  /\ UNCHANGED << storeVars, sessionVars, supportTargets, now >>
  /\ lastOp' = Op("unmount", 0, TRUE)
  /\ step

-----------------------------------------------------------------------------
(* The application *)

\* the mount effect on an empty localStorage: the sample targets are stored
\* and loaded, and the first one is selected
Init ==
  /\ localStorage = [ targets |-> sampleTargets, records |-> << >>, drafts |-> << >>,
                       goals |-> << >> ]
  /\ supportTargets = sampleTargets
  /\ evaluationRecords = << >>
  /\ evaluationDrafts = << >>
  /\ selectedTargetId = sampleTargets[1].id
  /\ currentDate = "2024-04-01"
  /\ evaluations = << >>
  /\ detailChecks = << >>
  /\ comments = << >>
  /\ activeEvaluator = "self"
  /\ autoSaveInterval = noInterval
  /\ now = 1
  /\ elapsed = 0
  /\ sinceAutoSave = -1
  /\ lastOp = Op("mount", 0, TRUE)
  /\ steps = 0
  /\ aiIdle

seqRange(s) == { s[k] : k \in 1 .. Len(s) }

Next ==
  \/ \E ci \in AnswerItems : \E score \in AnswerScores(ci[1], ci[2]) :
       handleEvaluation(ci[1], ci[2], score)
  \/ \E ci \in AnswerItems : \E sub \in SubIndexes : \E checked \in BOOLEAN :
       handleSubCheck(ci[1], ci[2], sub, checked)
  \/ \E ci \in CommentItems : \E text \in Texts : handleComment(ci[1], ci[2], text)
  \/ \E t \in seqRange(supportTargets) : selectTarget(t.id)
  \/ \E d \in Dates : setCurrentDate(d)
  \/ \E e \in EvaluatorButtons : setActiveEvaluator(e)
  \/ saveDraft
  \/ autoSave
  \/ \E d \in seqRange(evaluationDrafts) : loadDraft(d)
  \/ \E d \in seqRange(evaluationDrafts) : finalizeDraft(d.id)
  \/ \E d \in seqRange(evaluationDrafts) : deleteDraft(d.id)
  \/ saveEvaluationRecord
  \/ \E r \in seqRange(evaluationRecords) : loadEvaluationRecord(r)
  \/ \E r \in seqRange(evaluationRecords) : deleteRecord(r.id)
  \/ \E t \in seqRange(supportTargets) : handleDeleteTarget(t.id)

Spec == Init /\ [][Next]_vars

(* Targets, records, drafts and goals: the handlers around target deletion *)
NextCascade ==
  \/ \E ci \in AnswerItems : \E score \in AnswerScores(ci[1], ci[2]) :
       handleEvaluation(ci[1], ci[2], score)
  \/ \E t \in seqRange(supportTargets) : selectTarget(t.id)
  \/ saveDraft
  \/ saveEvaluationRecord
  \/ \E d \in Dates : \E g \in GoalLabels : handleSaveGoal(d, g)
  \/ \E d \in seqRange(evaluationDrafts) : loadDraft(d)
  \/ \E d \in seqRange(evaluationDrafts) : finalizeDraft(d.id)
  \/ \E t \in seqRange(supportTargets) : handleDeleteTarget(t.id)

SpecCascade == Init /\ [][NextCascade]_vars

(* Scoring: the session holds any responses of the active evaluator to     *)
(* three items of the first category, as entered by handleEvaluation, and  *)
(* the save paths run on them                                               *)
\* one item of each type
ScoreItems == { << 0, 0 >>, << 0, 5 >>, << 0, 10 >> }
ScoreInputs ==
  UNION { [ { Key("self", ci[1], ci[2]) : ci \in answered } -> 1 .. 5 ] :
            answered \in SUBSET ScoreItems }

InitScore ==
  /\ localStorage = [ targets |-> sampleTargets, records |-> << >>, drafts |-> << >>,
                       goals |-> << >> ]
  /\ supportTargets = sampleTargets
  /\ evaluationRecords = << >>
  /\ evaluationDrafts = << >>
  /\ selectedTargetId = sampleTargets[1].id
  /\ currentDate = "2024-04-01"
  /\ evaluations \in { ev \in ScoreInputs :
                         \A k \in DOMAIN ev : ev[k] <= optionCount(k[2], k[3]) }
  /\ detailChecks = << >>
  /\ comments = << >>
  /\ activeEvaluator = "self"
  /\ autoSaveInterval =
       IF autosaveArmed(selectedTargetId, evaluations)
         THEN [ set |-> TRUE, closure |-> currentClosure ]
         ELSE noInterval
  /\ now = 1
  /\ elapsed = 0
  /\ sinceAutoSave = -1
  /\ lastOp = Op("handleEvaluation", 0, TRUE)
  /\ steps = 0
  /\ aiIdle

NextScore ==
  \/ saveDraft
  \/ saveEvaluationRecord
  \/ \E d \in seqRange(evaluationDrafts) : finalizeDraft(d.id)
  \/ \E r \in seqRange(evaluationRecords) : deleteRecord(r.id)

SpecScore == InitScore /\ [][NextScore]_vars

(* Target management: the add / edit form, selection and deletion *)
NextTargets ==
  \/ \E editingId \in {""} \cup { t.id : t \in seqRange(supportTargets) } :
       \E userId \in UserIds : \E name \in Names : \E birthdate \in Birthdates :
         handleSaveTarget(editingId, userId, name, birthdate)
  \/ \E t \in seqRange(supportTargets) : selectTarget(t.id)
  \/ \E t \in seqRange(supportTargets) : handleDeleteTarget(t.id)

SpecTargets == Init /\ [][NextTargets]_vars

(* Stored responses are not validated when loadDraft or loadEvaluationRecord *)
(* puts them into the session: the session holds responses read from       *)
(* storage, in and out of the options of their items, and the save paths    *)
(* run on them                                                              *)
RawInputs == { -1, 1, 3, 6 }

InitDomain ==
  /\ localStorage = [ targets |-> sampleTargets, records |-> << >>, drafts |-> << >>,
                       goals |-> << >> ]
  /\ supportTargets = sampleTargets
  /\ evaluationRecords = << >>
  /\ evaluationDrafts = << >>
  /\ selectedTargetId = sampleTargets[1].id
  /\ currentDate = "2024-04-01"
  /\ evaluations \in UNION { [ { Key("self", ci[1], ci[2]) : ci \in answered } -> RawInputs ] :
                               answered \in SUBSET ScoreItems }
  /\ detailChecks = << >>
  /\ comments = << >>
  /\ activeEvaluator = "self"
  /\ autoSaveInterval =
       IF autosaveArmed(selectedTargetId, evaluations)
         THEN [ set |-> TRUE, closure |-> currentClosure ]
         ELSE noInterval
  /\ now = 1
  /\ elapsed = 0
  /\ sinceAutoSave = -1
  /\ lastOp = Op("loadDraft", 0, TRUE)
  /\ steps = 0
  /\ aiIdle

SpecDomain == InitDomain /\ [][NextScore]_vars

(* Totals: the session holds responses of two evaluators to 5-level items  *)
(* of the three categories, as entered by handleEvaluation after           *)
(* setActiveEvaluator, and the save paths run on them                       *)
TotalKeys == { Key("self", 0, 0), Key("self", 1, 0), Key("self", 2, 14),
               Key("staff", 0, 0), Key("staff", 1, 0) }
\* options clicked on them
TotalScores == {1, 3}

InitTotal ==
  /\ localStorage = [ targets |-> sampleTargets, records |-> << >>, drafts |-> << >>,
                       goals |-> << >> ]
  /\ supportTargets = sampleTargets
  /\ evaluationRecords = << >>
  /\ evaluationDrafts = << >>
  /\ selectedTargetId = sampleTargets[1].id
  /\ currentDate = "2024-04-01"
  /\ evaluations \in UNION { [ keys -> TotalScores ] : keys \in SUBSET TotalKeys }
  /\ detailChecks = << >>
  /\ comments = << >>
  /\ activeEvaluator \in EvaluatorButtons
  /\ autoSaveInterval =
       IF autosaveArmed(selectedTargetId, evaluations)
         THEN [ set |-> TRUE, closure |-> currentClosure ]
         ELSE noInterval
  /\ now = 1
  /\ elapsed = 0
  /\ sinceAutoSave = -1
  /\ lastOp = Op("handleEvaluation", 0, TRUE)
  /\ steps = 0
  /\ aiIdle

NextTotal ==
  \/ saveDraft
  \/ autoSave
  \/ saveEvaluationRecord
  \/ \E d \in seqRange(evaluationDrafts) : finalizeDraft(d.id)

SpecTotal == InitTotal /\ [][NextTotal]_vars

(* Draft operations called with any id the clock can have issued, and with *)
(* the id it has not issued yet (a row of the draft table can outlive its   *)
(* draft when the collection is changed under it)                           *)
NextErrors ==
  \/ \E ci \in AnswerItems : \E score \in AnswerScores(ci[1], ci[2]) :
       handleEvaluation(ci[1], ci[2], score)
  \/ \E d \in Dates : setCurrentDate(d)
  \/ \E t \in seqRange(supportTargets) : selectTarget(t.id)
  \/ saveDraft
  \/ \E id \in 1 .. now : finalizeDraft(id)
  \/ \E id \in 1 .. now : deleteDraft(id)

SpecErrors == Init /\ [][NextErrors]_vars

(* Order of entry: from any responses of evaluator self the user changes   *)
(* responses back and forth, switches the evaluator and saves              *)
NextOrder ==
  \/ \E ci \in AnswerItems : \E score \in AnswerScores(ci[1], ci[2]) :
       handleEvaluation(ci[1], ci[2], score)
  \/ \E e \in EvaluatorButtons : setActiveEvaluator(e)
  \/ saveDraft
  \/ saveEvaluationRecord

SpecOrder == InitScore /\ [][NextOrder]_vars

(* Editing a record: evaluator self has saved any responses as a record    *)
(* (stamped 1) and the edit button of the record table has loaded it; the  *)
(* user changes responses and comments and saves                            *)
InitEdit ==
  \E ev \in { e \in ScoreInputs : DOMAIN e # {}
                                  /\ \A k \in DOMAIN e : e[k] <= optionCount(k[2], k[3]) } :
    LET records ==
          saveEvaluationRecordStore(<< >>,
            [ targetId |-> sampleTargets[1].id, targetName |-> sampleTargets[1].name,
              evaluationDate |-> "2024-04-01", evaluator |-> "self",
              evaluations |-> ev, subChecks |-> << >>, comments |-> << >>,
              totalScore |-> sessionTotalScore(ev, "self"),
              categoryScores |-> sessionCategoryScores(ev, "self") ], 1)
    IN
    /\ localStorage = [ targets |-> sampleTargets, records |-> records, drafts |-> << >>,
                         goals |-> << >> ]
    /\ supportTargets = sampleTargets
    /\ evaluationRecords = records
    /\ evaluationDrafts = << >>
    /\ selectedTargetId = records[1].targetId
    /\ currentDate = records[1].evaluationDate
    /\ evaluations = records[1].evaluations
    /\ detailChecks = records[1].subChecks
    /\ comments = records[1].comments
    /\ activeEvaluator = records[1].evaluator
    /\ autoSaveInterval = [ set |-> TRUE, closure |-> currentClosure ]
    /\ now = 2
    /\ elapsed = 0
    /\ sinceAutoSave = -1
    /\ lastOp = Op("loadEvaluationRecord", 1, TRUE)
    /\ steps = 0
    /\ aiIdle

NextEdit ==
  \/ \E ci \in AnswerItems : \E score \in AnswerScores(ci[1], ci[2]) :
       handleEvaluation(ci[1], ci[2], score)
  \/ \E ci \in CommentItems : \E text \in Texts : handleComment(ci[1], ci[2], text)
  \/ saveEvaluationRecord

SpecEdit == InitEdit /\ [][NextEdit]_vars

(* The life of a draft among the handlers that write any collection *)
NextLifecycle ==
  \/ \E ci \in AnswerItems : \E score \in AnswerScores(ci[1], ci[2]) :
       handleEvaluation(ci[1], ci[2], score)
  \/ \E d \in Dates : setCurrentDate(d)
  \/ saveDraft
  \/ \E d \in seqRange(evaluationDrafts) : loadDraft(d)
  \/ \E d \in seqRange(evaluationDrafts) : finalizeDraft(d.id)
  \/ \E d \in seqRange(evaluationDrafts) : deleteDraft(d.id)
  \/ saveEvaluationRecord
  \/ \E d \in Dates : \E g \in GoalLabels : handleSaveGoal(d, g)
  \/ \E t \in seqRange(supportTargets) : handleDeleteTarget(t.id)

SpecLifecycle == Init /\ [][NextLifecycle]_vars

(* Time: minutes pass while an interval is armed, and its callback runs *)
(* when the period has elapsed since it was armed or last ran            *)
minutePasses ==
  /\ lastOp.op # "unmount"
  /\ autoSaveInterval.set
  /\ elapsed < AutoSavePeriod
  /\ sinceAutoSave < MaxMinutes
  /\ elapsed' = elapsed + 1
  /\ sinceAutoSave' = IF sinceAutoSave >= 0 THEN sinceAutoSave + 1 ELSE sinceAutoSave
  /\ UNCHANGED << storeVars, sessionVars, supportTargets, autoSaveInterval, now, lastOp,
                  steps, aiVars, noticeVars >>

autoSaveDue == elapsed = AutoSavePeriod /\ autoSave

NextTimed ==
  \/ minutePasses
  \/ autoSaveDue
  \/ \E ci \in AnswerItems : \E score \in AnswerScores(ci[1], ci[2]) :
       handleEvaluation(ci[1], ci[2], score)
  \/ \E ci \in CommentItems : \E text \in Texts : handleComment(ci[1], ci[2], text)
  \/ \E t \in seqRange(supportTargets) : selectTarget(t.id)
  \/ \E d \in Dates : setCurrentDate(d)
  \/ \E e \in EvaluatorButtons : setActiveEvaluator(e)
  \/ saveDraft
  \/ \E d \in seqRange(evaluationDrafts) : loadDraft(d)
  \/ \E t \in seqRange(supportTargets) : handleDeleteTarget(t.id)
  \/ unmount

SpecTimed == Init /\ [][NextTimed]_vars

-----------------------------------------------------------------------------
(* A full store: localStorage.setItem throws QuotaExceededError *)

\* a handler that reset the responses before it wrote
writeFailsSessionLost(name) ==
  /\ evaluations' = << >>
  /\ UNCHANGED << storeVars, selectedTargetId, currentDate, detailChecks, comments,
                  activeEvaluator, supportTargets, now, noticeVars >>
  /\ lastOp' = OpWithForm(name, "", FALSE, << "QuotaExceededError" >>)

\* DataService.saveEvaluationDraft / saveEvaluationRecord called by the handler
\* `name` throws out of setItem: the handler calls it before its first
\* setState and has no catch, so the exception leaves the handler (React
\* reports it, the interval stays armed) with nothing set
writeFails(name) ==
  /\ UNCHANGED << storeVars, sessionVars, supportTargets, now, noticeVars >>
  /\ lastOp' = OpWithForm(name, "", FALSE, << "QuotaExceededError" >>)

\* the temporary-save button, with the store full
saveDraftQuotaExceeded ==
  /\ selectedTargetId # ""
  /\ currentClosure.selectedTarget.found
  /\ writeFails("saveDraft")
  /\ autosaveEffect(FALSE)
  /\ saveStep

\* the interval callback, with the store full
autoSaveQuotaExceeded ==
  /\ autoSaveInterval.set
  /\ autoSaveInterval.closure.selectedTarget.found
  /\ writeFails("autoSave")
  /\ UNCHANGED autoSaveInterval
  /\ elapsed' = 0
  /\ sinceAutoSave' = 0
  /\ saveStep

\* the save-evaluation button, with the store full
saveEvaluationRecordQuotaExceeded ==
  /\ selectedTargetId # ""
  /\ findTarget(supportTargets, selectedTargetId).found
  /\ writeFails("saveEvaluationRecord")
  /\ autosaveEffect(FALSE)
  /\ saveStep

NextQuota ==
  \/ \E ci \in AnswerItems : \E score \in AnswerScores(ci[1], ci[2]) :
       handleEvaluation(ci[1], ci[2], score)
  \/ \E ci \in AnswerItems : \E sub \in SubIndexes : \E checked \in BOOLEAN :
       handleSubCheck(ci[1], ci[2], sub, checked)
  \/ \E ci \in CommentItems : \E text \in Texts : handleComment(ci[1], ci[2], text)
  \/ \E d \in Dates : setCurrentDate(d)
  \/ \E e \in EvaluatorButtons : setActiveEvaluator(e)
  \/ saveDraft
  \/ saveDraftQuotaExceeded
  \/ autoSave
  \/ autoSaveQuotaExceeded
  \/ saveEvaluationRecord
  \/ saveEvaluationRecordQuotaExceeded

SpecQuota == Init /\ [][NextQuota]_vars

-----------------------------------------------------------------------------
(* The save message and its timeouts *)

\* a callback of setTimeout(() => setSaveMessage(''), 3000) runs; the timeouts
\* are never cancelled, so each one that was set runs once
messageTimeout ==
  /\ messageTimeouts > 0
  /\ saveMessage' = ""
  /\ messageTimeouts' = messageTimeouts - 1
  /\ UNCHANGED << storeVars, sessionVars, supportTargets, autoSaveInterval, now, elapsed,
                  sinceAutoSave, lastOp, steps, aiVars >>

NextMessages ==
  \/ \E ci \in AnswerItems : \E score \in AnswerScores(ci[1], ci[2]) :
       handleEvaluation(ci[1], ci[2], score)
  \/ \E d \in Dates : setCurrentDate(d)
  \/ saveDraft
  \/ saveDraftQuotaExceeded
  \/ autoSave
  \/ saveEvaluationRecord
  \/ saveEvaluationRecordQuotaExceeded
  \/ \E d \in seqRange(evaluationDrafts) : finalizeDraft(d.id)
  \/ messageTimeout

\* the browser runs every timeout that was set
SpecMessages == Init /\ [][NextMessages]_vars /\ WF_vars(messageTimeout)

-----------------------------------------------------------------------------
(* AI features: GeminiAIService and the handlers that await it *)

\* what can go wrong between a call of the service and its parsed result
Failures == { "none", "no_api_key", "request_error", "unparseable_response" }
\* the same for the operations that return response.text() as it is
TextFailures == { "none", "no_api_key", "request_error" }

Returned(value) == [ thrown |-> FALSE, value |-> value ]
Thrown == [ thrown |-> TRUE, value |-> "" ]

\* the operations that JSON.parse the response text
parsesJson(operation) ==
  operation \in { "generateSupportConsiderations", "generateSupportGoalRecommendations",
                  "generateComprehensiveDifferenceAnalysis" }

\* the try block of an operation: initializeAI throws without an API key,
\* generateContent rejects on a request error, and JSON.parse (after the
\* retries of generateSupportConsiderations) throws on an unparseable text
geminiRequest(operation, failure) ==
  IF failure = "no_api_key" THEN Thrown
  ELSE IF failure = "request_error" THEN Thrown
  ELSE IF parsesJson(operation) /\ failure = "unparseable_response" THEN Thrown
  ELSE Returned("gemini")

\* an operation of GeminiAIService: try { ... } catch (error) { return <static content> }
GeminiAIService(operation, failure) ==
  LET r == geminiRequest(operation, failure)
  IN  IF r.thrown THEN Returned("fallback") ELSE r

\* what a handler saw of one call of the service
Call(operation, failure, r) ==
  [ operation |-> operation, failure |-> failure, thrown |-> r.thrown, value |-> r.value ]

\* selectedTarget = supportTargets.find(t => t.id === selectedTargetId)
hasSelectedTarget ==
  selectedTargetId # "" /\ \E t \in seqRange(supportTargets) : t.id = selectedTargetId

\* an async handler at its await: evaluationData was built from this
\* render's target, date and responses
Awaiting(handler) ==
  [ handler |-> handler, selectedTargetId |-> selectedTargetId,
    currentDate |-> currentDate, evaluations |-> evaluations ]

withoutIndex(s, k) == SubSeq(s, 1, k - 1) \o SubSeq(s, k + 1, Len(s))

\* an AI handler leaves the stored and the session data alone
aiOnly ==
  /\ asyncStep
  /\ UNCHANGED << storeVars, sessionVars, supportTargets, now, noticeVars >>
  /\ autosaveEffect(FALSE)

\* generateAIAnalysis up to its await; its button is disabled while isGeneratingAnalysis
generateAIAnalysis ==
  /\ ~isGeneratingAnalysis
  /\ aiOnly
  /\ aiAnalysisGenerated' = FALSE
  /\ IF ~hasSelectedTarget \/ DOMAIN evaluations = {}
       THEN /\ isGeneratingAnalysis' = FALSE
            /\ pending' = pending
            /\ lastOp' = Op("generateAIAnalysis", 0, FALSE)
       ELSE /\ isGeneratingAnalysis' = TRUE
            /\ pending' = Append(pending, Awaiting("generateAIAnalysis"))
            /\ lastOp' = Op("generateAIAnalysis", 0, TRUE)
  /\ UNCHANGED << isGenerating, isAnalysisLoading, analysisCompleted, aiGeneralObservation,
                  aiConsiderations, geminiAnalysisResult, aiGoalRecommendations >>

\* generateAIAnalysis from the await of Promise.all on: the results are
\* shown, or the catch block shows the locally generated texts, and the
\* finally block clears the flag
generateAIAnalysisAwaited(k, f1, f2) ==
  /\ pending[k].handler = "generateAIAnalysis"
  /\ aiOnly
  /\ LET observation == GeminiAIService("generateGeneralObservation", f1)
         considerations == GeminiAIService("generateSupportConsiderations", f2)
         caught == observation.thrown \/ considerations.thrown
     IN  /\ aiGeneralObservation' = IF caught THEN "local" ELSE observation.value
         /\ aiConsiderations' = IF caught THEN "local" ELSE considerations.value
         /\ lastOp' = OpWithForm("generateAIAnalysisAwaited", "", ~caught,
                        << Call("generateGeneralObservation", f1, observation),
                           Call("generateSupportConsiderations", f2, considerations) >>)
  /\ aiAnalysisGenerated' = TRUE
  /\ isGeneratingAnalysis' = FALSE
  /\ pending' = withoutIndex(pending, k)
  /\ UNCHANGED << isGenerating, isAnalysisLoading, analysisCompleted, geminiAnalysisResult,
                  aiGoalRecommendations >>

\* the button of the difference-analysis panel, disabled while isAnalysisLoading:
\* it hides the panel when isGeneratingAnalysis, else sets the flag and runs
\* executeAnalysis up to its await
toggleDifferenceAnalysis ==
  /\ ~isAnalysisLoading
  /\ aiOnly
  /\ analysisCompleted' = FALSE
  /\ IF isGeneratingAnalysis
       THEN /\ isGeneratingAnalysis' = FALSE
            /\ UNCHANGED << isAnalysisLoading, geminiAnalysisResult, pending >>
            /\ lastOp' = Op("hideDifferenceAnalysis", 0, TRUE)
       ELSE /\ isGeneratingAnalysis' = TRUE
            /\ isAnalysisLoading' = TRUE
            /\ geminiAnalysisResult' = ""
            /\ pending' = Append(pending, Awaiting("executeAnalysis"))
            /\ lastOp' = Op("executeAnalysis", 0, TRUE)
  /\ UNCHANGED << isGenerating, aiAnalysisGenerated, aiGeneralObservation, aiConsiderations,
                  aiGoalRecommendations >>

\* executeAnalysis from its await on; the click handler that awaited it
\* does nothing more
executeAnalysisAwaited(k, f) ==
  /\ pending[k].handler = "executeAnalysis"
  /\ aiOnly
  /\ LET analysisResult == GeminiAIService("generateComprehensiveDifferenceAnalysis", f)
     IN  /\ geminiAnalysisResult' =
              IF analysisResult.thrown THEN geminiAnalysisResult ELSE analysisResult.value
         /\ lastOp' = OpWithForm("executeAnalysisAwaited", "", ~analysisResult.thrown,
                        << Call("generateComprehensiveDifferenceAnalysis", f,
                                analysisResult) >>)
  /\ analysisCompleted' = TRUE
  /\ isAnalysisLoading' = FALSE
  /\ pending' = withoutIndex(pending, k)
  /\ UNCHANGED << isGenerating, isGeneratingAnalysis, aiAnalysisGenerated,
                  aiGeneralObservation, aiConsiderations, aiGoalRecommendations >>

\* the generate button of the AI goal modal up to its await; disabled while isGenerating
generateGoalRecommendations ==
  /\ ~isGenerating
  /\ aiOnly
  /\ isGenerating' = TRUE
  /\ pending' = Append(pending, Awaiting("generateGoalRecommendations"))
  /\ lastOp' = Op("generateGoalRecommendations", 0, TRUE)
  /\ UNCHANGED << isGeneratingAnalysis, isAnalysisLoading, analysisCompleted,
                  aiAnalysisGenerated, aiGeneralObservation, aiConsiderations,
                  geminiAnalysisResult, aiGoalRecommendations >>

\* the same handler from its await on
generateGoalRecommendationsAwaited(k, f) ==
  /\ pending[k].handler = "generateGoalRecommendations"
  /\ aiOnly
  /\ LET recommendations == GeminiAIService("generateSupportGoalRecommendations", f)
     IN  /\ aiGoalRecommendations' =
              IF recommendations.thrown THEN aiGoalRecommendations ELSE recommendations.value
         /\ lastOp' = OpWithForm("generateGoalRecommendationsAwaited", "",
                        ~recommendations.thrown,
                        << Call("generateSupportGoalRecommendations", f, recommendations) >>)
  /\ isGenerating' = FALSE
  /\ pending' = withoutIndex(pending, k)
  /\ UNCHANGED << isGeneratingAnalysis, isAnalysisLoading, analysisCompleted,
                  aiAnalysisGenerated, aiGeneralObservation, aiConsiderations,
                  geminiAnalysisResult >>

NextAI ==
  \/ \E ci \in AnswerItems : \E score \in AnswerScores(ci[1], ci[2]) :
       handleEvaluation(ci[1], ci[2], score)
  \/ \E t \in seqRange(supportTargets) : selectTarget(t.id)
  \/ \E d \in Dates : setCurrentDate(d)
  \/ \E t \in seqRange(supportTargets) : handleDeleteTarget(t.id)
  \/ generateAIAnalysis
  \/ \E k \in 1 .. Len(pending) : \E f1 \in TextFailures : \E f2 \in Failures :
       generateAIAnalysisAwaited(k, f1, f2)
  \/ toggleDifferenceAnalysis
  \/ \E k \in 1 .. Len(pending) : \E f \in Failures : executeAnalysisAwaited(k, f)
  \/ generateGoalRecommendations
  \/ \E k \in 1 .. Len(pending) : \E f \in Failures :
       generateGoalRecommendationsAwaited(k, f)

SpecAI == Init /\ [][NextAI]_vars

-----------------------------------------------------------------------------
(* Properties *)

draftsWithId(drafts, id) == { d \in seqRange(drafts) : d.id = id }

\* the draft the last handler wrote, when it was a save of a draft
writtenDraft == CHOOSE d \in seqRange(localStorage.drafts) : d.id = lastOp.id

autoSaveWrote == lastOp.op = "autoSave" /\ lastOp.ok
SamePair(a, b) == a.targetId = b.targetId /\ a.goalDate = b.goalDate

draftSaveWrote == lastOp.op \in { "saveDraft", "autoSave" } /\ lastOp.ok

\* the number of items the map ev answers for the evaluator
answeredBy(ev, evaluator) == Cardinality({ k \in DOMAIN ev : k[1] = evaluator /\ ev[k] > 0 })

\* the exact mean of the normalized scores of the answered items of a category
exactMean(ev, evaluator, c) ==
  LET scores == categoryScoresOf(ev, evaluator, c) IN
  IF Len(scores) = 0 THEN Frac(0, 1) ELSE Frac(SumSeq(scores), Len(scores))

\* C1: in every reachable state the persisted draft collection holds at most
\* one draft per (targetId, evaluationDate, evaluator) triple.
C1_OneDraftPerTriple ==
  \A i, j \in 1 .. Len(localStorage.drafts) :
    SameTriple(localStorage.drafts[i], localStorage.drafts[j]) => i = j

\* C1 witness: two drafts are stored and one of them was overwritten in place
\* by a later save of its triple.
C1_Witness ==
  /\ Len(localStorage.drafts) = 2
  /\ \E d \in seqRange(localStorage.drafts) : d.lastSaved > d.createdAt

\* C2: a step of finalizeDraft(d) on a stored draft d removes d from the
\* draft collection and appends exactly one record to the record collection,
\* which has d's target, date, evaluator and raw responses, the sum of the
\* normalized scores of d's evaluator as totalScore and, per category, the
\* mean of the normalized scores of the answered items as categoryScores.
C2_FinalizeThenDelete ==
  [][ \A d \in seqRange(localStorage.drafts) :
        (lastOp'.op = "finalizeDraft" /\ lastOp'.id = d.id /\ steps' = steps + 1) =>
          /\ draftsWithId(localStorage'.drafts, d.id) = {}
          /\ Len(localStorage'.records) = Len(localStorage.records) + 1
          /\ SubSeq(localStorage'.records, 1, Len(localStorage.records)) = localStorage.records
          /\ LET r == localStorage'.records[Len(localStorage'.records)] IN
               /\ r.targetId = d.targetId
               /\ r.evaluationDate = d.evaluationDate
               /\ r.evaluator = d.evaluator
               /\ r.evaluations = d.evaluations
               /\ r.totalScore = sessionTotalScore(d.evaluations, d.evaluator)
               /\ \A name \in CategoryNames :
                    r.categoryScores[name] = exactMean(d.evaluations, d.evaluator, catIndexOf(name))
    ]_vars

\* C2 witness: finalizeDraft has just turned a draft with an answered item
\* into a record with a nonzero total, and the draft is gone.
C2_Witness ==
  /\ lastOp.op = "finalizeDraft" /\ lastOp.ok
  /\ draftsWithId(localStorage.drafts, lastOp.id) = {}
  /\ Len(localStorage.records) > 0
  /\ localStorage.records[Len(localStorage.records)].totalScore > 0

\* C5: a save of a draft, by the button or by the interval, leaves the draft
\* of its key holding the session's responses, sub-checks and comments of that
\* save and the latest lastSaved of the collection; it loses no other draft,
\* and no draft's lastSaved decreases.
C5_LatestSaveWins ==
  [][ (lastOp'.op \in { "saveDraft", "autoSave" } /\ lastOp'.ok /\ steps' = steps + 1) =>
        /\ \E w \in draftsWithId(localStorage'.drafts, lastOp'.id) :
             /\ w.evaluations = evaluations
             /\ w.subChecks = detailChecks
             /\ w.comments = comments
             /\ \A x \in seqRange(localStorage'.drafts) : x.lastSaved <= w.lastSaved
        /\ \A d \in seqRange(localStorage.drafts) :
             /\ d.id # lastOp'.id => d \in seqRange(localStorage'.drafts)
             /\ \E x \in draftsWithId(localStorage'.drafts, d.id) : x.lastSaved >= d.lastSaved
    ]_vars

\* C5 witness: the interval has just overwritten a draft that an earlier save
\* created with other responses.
C5_Witness ==
  /\ autoSaveWrote
  /\ writtenDraft.lastSaved > writtenDraft.createdAt
  /\ writtenDraft.evaluations = evaluations
  /\ DOMAIN evaluations # {}

\* C7 (as claimed): the draft an interval callback writes is keyed by the
\* session's selected target, date and active evaluator at firing time and
\* holds the session's responses, sub-checks and comments at firing time.
C7_AutoSaveUsesCurrentState ==
  autoSaveWrote =>
    /\ writtenDraft.targetId = selectedTargetId
    /\ writtenDraft.evaluationDate = currentDate
    /\ writtenDraft.evaluator = activeEvaluator
    /\ writtenDraft.evaluations = evaluations
    /\ writtenDraft.subChecks = detailChecks
    /\ writtenDraft.comments = comments

\* C8 (as claimed): the interval callback writes a draft only with a target
\* selected and a response entered, and never a draft whose evaluator has no
\* answered item.
C8_AutoSaveNeverEmpty ==
  autoSaveWrote =>
    /\ selectedTargetId # ""
    /\ DOMAIN evaluations # {}
    /\ answeredBy(writtenDraft.evaluations, writtenDraft.evaluator) > 0

\* C9: an armed interval belongs to the selected target, none is armed when
\* no target is selected or the component is unmounted, and a draft written
\* by the interval is a draft of the target selected at that time.
C9_IntervalFollowsTarget ==
  /\ autoSaveInterval.set =>
       /\ selectedTargetId # ""
       /\ autoSaveInterval.closure.selectedTargetId = selectedTargetId
  /\ lastOp.op = "unmount" => ~autoSaveInterval.set
  /\ autoSaveWrote => writtenDraft.targetId = selectedTargetId

\* C9 witness: after a response was entered for one target another target
\* was selected, and the interval has written a draft for the new target
\* while none exists for the old one.
C9_Witness ==
  /\ autoSaveWrote
  /\ selectedTargetId = "target_sample_2"
  /\ \A d \in seqRange(localStorage.drafts) : d.targetId = "target_sample_2"


\* C3 (as claimed): every stored record has the totalScore and the
\* categoryScores that getEvaluationScore and calculateCategoryAverage yield
\* from its own stored responses for its evaluator.
C3_RecordScoresDerived ==
  \A r \in seqRange(localStorage.records) :
    /\ r.totalScore = sessionTotalScore(r.evaluations, r.evaluator)
    /\ r.categoryScores = sessionCategoryScores(r.evaluations, r.evaluator)

\* C4 (as claimed): two stored records with the same responses and evaluator,
\* one saved directly and one finalized from a draft, have the same
\* totalScore and the same categoryScores.
C4_SavePathsAgree ==
  \A r1, r2 \in seqRange(localStorage.records) :
    (r1.evaluations = r2.evaluations /\ r1.evaluator = r2.evaluator) =>
      /\ r1.totalScore = r2.totalScore
      /\ r1.categoryScores = r2.categoryScores

\* C6: a step that deletes a stored target t leaves the targets without t,
\* the records without exactly those of t, and the drafts and the goals
\* unchanged.
C6_DeleteTargetCascade ==
  [][ \A t \in seqRange(localStorage.targets) :
        (lastOp'.op = "handleDeleteTarget" /\ lastOp'.target = t.id /\ steps' = steps + 1) =>
          /\ localStorage'.targets = SelectSeq(localStorage.targets, LAMBDA x : x.id # t.id)
          /\ localStorage'.records =
               SelectSeq(localStorage.records, LAMBDA r : r.targetId # t.id)
          /\ localStorage'.drafts = localStorage.drafts
          /\ localStorage'.goals = localStorage.goals
    ]_vars

\* C6 witness: a target was just deleted; a record of it left the store (the
\* in-memory list still shows it), and a draft and a goal of it are still
\* stored.
C6_Witness ==
  /\ lastOp.op = "handleDeleteTarget" /\ lastOp.ok
  /\ \A t \in seqRange(localStorage.targets) : t.id # lastOp.target
  /\ \E r \in seqRange(evaluationRecords) :
       r.targetId = lastOp.target /\ r \notin seqRange(localStorage.records)
  /\ \E d \in seqRange(localStorage.drafts) : d.targetId = lastOp.target
  /\ \E g \in seqRange(localStorage.goals) : g.targetId = lastOp.target

\* C10 (as claimed): while a target is selected and a response is recorded,
\* no more than the autosave period passes after a run of the interval
\* callback without its next run, whatever the user edits in between.
C10_AutoSaveEveryPeriod == sinceAutoSave <= AutoSavePeriod

\* C11: a step of finalizeDraft(id) with no stored draft of that id reports
\* the failure and changes neither the stored records and drafts, nor the
\* in-memory lists, nor the session; DataService.convertDraftToRecord returns
\* null for such an id and leaves the store as it is.
C11_FinalizeMissingDraft ==
  [][ (/\ lastOp'.op = "finalizeDraft"
       /\ steps' = steps + 1
       /\ draftsWithId(localStorage.drafts, lastOp'.id) = {}) =>
          /\ ~lastOp'.ok
          /\ localStorage' = localStorage
          /\ evaluationRecords' = evaluationRecords
          /\ evaluationDrafts' = evaluationDrafts
          /\ UNCHANGED sessionVars
          /\ convertDraftToRecord(localStorage, lastOp'.id, now) =
               [ store |-> localStorage, saved |-> << >> ]
    ]_vars

\* C11 witness: finalizeDraft has just failed on an absent id while another
\* draft is stored and the session holds a response.
C11_Witness ==
  /\ lastOp.op = "finalizeDraft" /\ ~lastOp.ok
  /\ draftsWithId(localStorage.drafts, lastOp.id) = {}
  /\ Len(localStorage.drafts) > 0
  /\ DOMAIN evaluations # {}

\* C12: a step deleting a draft id that is not stored returns false and
\* leaves the draft collection as it is; a step deleting a stored id returns
\* true and leaves the collection without that one draft, the others kept in
\* order.
C12_DeleteDraftOutcome ==
  [][ (lastOp'.op = "deleteDraft" /\ steps' = steps + 1) =>
        IF draftsWithId(localStorage.drafts, lastOp'.id) = {}
          THEN /\ ~lastOp'.ok
               /\ localStorage'.drafts = localStorage.drafts
          ELSE /\ lastOp'.ok
               /\ Len(localStorage'.drafts) = Len(localStorage.drafts) - 1
               /\ draftsWithId(localStorage'.drafts, lastOp'.id) = {}
               /\ \E k \in 1 .. Len(localStorage.drafts) :
                    /\ localStorage.drafts[k].id = lastOp'.id
                    /\ localStorage'.drafts =
                         SubSeq(localStorage.drafts, 1, k - 1) \o
                         SubSeq(localStorage.drafts, k + 1, Len(localStorage.drafts))
    ]_vars

\* C12 witness: one of two stored drafts of a target has just been deleted
\* and the other is still stored.
C12_Witness ==
  /\ lastOp.op = "deleteDraft" /\ lastOp.ok
  /\ Len(localStorage.drafts) = 1
  /\ \E d \in seqRange(localStorage.drafts) : d.id # lastOp.id

\* C13: every reachable goal collection holds at most one goal per
\* (targetId, goalDate) pair, and a goal save leaves the goal of its pair with
\* the fields of that save and the latest updatedAt, under the id and the
\* createdAt the pair's goal had before (when it had one), all other goals
\* unchanged.
C13_OneGoalPerPair ==
  /\ [](\A i, j \in 1 .. Len(localStorage.goals) :
          SamePair(localStorage.goals[i], localStorage.goals[j]) => i = j)
  /\ [][ (lastOp'.op = "handleSaveGoal" /\ lastOp'.ok /\ steps' = steps + 1) =>
           \E k \in 1 .. Len(localStorage'.goals) :
             LET w == localStorage'.goals[k] IN
             /\ w.targetId = lastOp'.target
             /\ w.goalDate = lastOp'.arg[1]
             /\ w.selectedGoal = lastOp'.arg[2]
             /\ \A x \in seqRange(localStorage'.goals) : x.updatedAt <= w.updatedAt
             /\ IF \E o \in seqRange(localStorage.goals) : SamePair(o, w)
                  THEN /\ Len(localStorage'.goals) = Len(localStorage.goals)
                       /\ w.id = localStorage.goals[k].id
                       /\ w.createdAt = localStorage.goals[k].createdAt
                       /\ SamePair(localStorage.goals[k], w)
                  ELSE /\ Len(localStorage'.goals) = Len(localStorage.goals) + 1
                       /\ k = Len(localStorage'.goals)
             /\ \A m \in 1 .. Len(localStorage.goals) :
                  m # k => localStorage'.goals[m] = localStorage.goals[m]
     ]_vars

\* C13 witness: the goal of a pair was saved again with another choice and
\* holds it under its first id, next to the goal of another pair.
C13_Witness ==
  /\ lastOp.op = "handleSaveGoal" /\ lastOp.ok
  /\ Len(localStorage.goals) = 2
  /\ \E g \in seqRange(localStorage.goals) :
       /\ g.updatedAt > g.createdAt
       /\ g.id = g.createdAt
       /\ g.selectedGoal = lastOp.arg[2]
       /\ g.goalDate = lastOp.arg[1]

\* C14: a step of handleSaveTarget, adding or editing, with the user id, the
\* name or the birthdate left empty is refused and leaves the stored
\* collections and the in-memory target list as they are.
C14_SaveTargetValidates ==
  [][ (/\ lastOp'.op = "handleSaveTarget"
       /\ steps' = steps + 1
       /\ \E k \in 1 .. 3 : lastOp'.arg[k] = "") =>
          /\ ~lastOp'.ok
          /\ localStorage' = localStorage
          /\ supportTargets' = supportTargets
    ]_vars

\* C14 witness: after a target was added, an edit of a stored target with a
\* user id and a birthdate but no name has just been refused.
C14_Witness ==
  /\ lastOp.op = "handleSaveTarget" /\ ~lastOp.ok
  /\ lastOp.arg[1] # "" /\ lastOp.arg[2] = "" /\ lastOp.arg[3] # ""
  /\ \E t \in seqRange(localStorage.targets) : t.id = lastOp.target
  /\ Len(localStorage.targets) = 3

\* all items of the checklist, as << category index, item index >>
AllItems == UNION { { << c, i >> : i \in ItemIndexes(c) } : c \in CatIndexes }

\* C15: for every item and evaluator the score transform of the session's
\* response is 0 for raw 0 (unanswered), 2 and 1 for raw 1 and 2 of a 2-level
\* item, and 6 - r for raw r in 1..5 of a 5-level item with or without
\* sub-checks; for every stored draft the transform finalizeDraft writes
\* inline gives the score of getEvaluationScore on the draft's responses.
C15_ScoreTransform ==
  /\ \A ci \in AllItems : \A e \in Evaluators :
       LET raw == getEvaluation(evaluations, e, ci[1], ci[2])
           score == getEvaluationScore(evaluations, e, ci[1], ci[2])
           twoLevel == itemType(ci[1], ci[2]) = r2s
       IN /\ raw = 0 => score = 0
          /\ (twoLevel /\ raw = 1) => score = 2
          /\ (twoLevel /\ raw = 2) => score = 1
          /\ (~twoLevel /\ raw \in 1 .. 5) => score = 6 - raw
  /\ \A d \in seqRange(localStorage.drafts) : \A ci \in AllItems :
       LET raw == draftRawScore(d, ci[1], ci[2]) IN
       (IF raw = 0 THEN 0 ELSE convertedScore(ci[1], ci[2], raw)) =
         getEvaluationScore(d.evaluations, d.evaluator, ci[1], ci[2])

\* C15 witness: a draft is stored whose responses leave the plain 5-level
\* item unanswered, give 3 on the 5-level item with sub-checks and 2 on the
\* 2-level item.
C15_Witness ==
  \E d \in seqRange(localStorage.drafts) :
    /\ draftRawScore(d, 0, 0) = 0
    /\ draftRawScore(d, 0, 5) = 3
    /\ draftRawScore(d, 0, 10) = 2
    /\ d.evaluations = evaluations

\* the mean of the normalized scores of the items of category c the evaluator
\* answered in ev, rounded to two decimals (halves up); 0 when none is answered
roundedMean(ev, evaluator, c) ==
  LET answered == { i \in ItemIndexes(c) : getEvaluation(ev, evaluator, c, i) # 0 }
      RECURSIVE total(_)
      total(is) == IF is = {} THEN 0
                   ELSE LET i == CHOOSE x \in is : TRUE IN
                        getEvaluationScore(ev, evaluator, c, i) + total(is \ {i})
      n == Cardinality(answered)
  IN IF n = 0 THEN << 0, 1 >>
     ELSE Frac((200 * total(answered) + n) \div (2 * n), 100)

\* the averages calculateCategoryAverage yields on the session are the rounded means
sessionAveragesRounded ==
  \A c \in CatIndexes : \A e \in Evaluators :
    calculateCategoryAverage(evaluations, c, e) = roundedMean(evaluations, e, c)

\* C16 (as claimed): every category average, computed on the session by
\* calculateCategoryAverage or stored in a record as its categoryScores, is
\* the mean of the normalized scores of the answered items of the category
\* rounded to two decimals, and 0 when no item of the category is answered.
C16_CategoryAverageRounded ==
  /\ sessionAveragesRounded
  /\ \A r \in seqRange(localStorage.records) : \A name \in CategoryNames :
       r.categoryScores[name] = roundedMean(r.evaluations, r.evaluator, catIndexOf(name))

\* the sum, over the keys of ev that belong to the evaluator and hold an
\* answer, of the normalized score of the answer
sumOfAnswered(ev, evaluator) ==
  LET keys == { k \in DOMAIN ev : k[1] = evaluator /\ ev[k] # 0 }
      RECURSIVE total(_)
      total(ks) == IF ks = {} THEN 0
                   ELSE LET k == CHOOSE x \in ks : TRUE IN
                        (IF itemType(k[2], k[3]) = r2s
                           THEN (IF ev[k] = 1 THEN 2 ELSE 1)
                           ELSE 6 - ev[k])
                        + total(ks \ {k})
  IN total(keys)

\* C17: the totalScore of every stored record, saved directly or finalized
\* from a draft, is the sum of the normalized scores of the items its own
\* evaluator answered, over all categories; unanswered items and the
\* responses of other evaluators add nothing.
C17_TotalScoreOfEvaluator ==
  \A r \in seqRange(localStorage.records) :
    r.totalScore = sumOfAnswered(r.evaluations, r.evaluator)

\* C17 witness: with responses of self in the map, staff answered raw 1 and
\* raw 3 on two 5-level items of two categories and nothing else, and a
\* record saved directly and a record finalized from a draft both hold 8.
C17_Witness ==
  /\ lastOp.op = "finalizeDraft" /\ lastOp.ok
  /\ \E k \in DOMAIN evaluations : k[1] = "self"
  /\ \E r1, r2 \in seqRange(localStorage.records) :
       /\ r1.id < r2.id
       /\ r2.id = now - 1
       /\ r1.evaluator = "staff" /\ r2.evaluator = "staff"
       /\ r1.evaluations = r2.evaluations
       /\ getEvaluation(r1.evaluations, "staff", 0, 0) = 1
       /\ getEvaluation(r1.evaluations, "staff", 1, 0) = 3
       /\ r1.totalScore = 8 /\ r2.totalScore = 8

\* C18: the checklist has 34 items, and every stored draft has as
\* completionRate the rounding of 100 * answered / 34 to the nearest integer,
\* where answered counts the nonzero responses of the draft's own evaluator
\* in the draft's own responses; the rate lies in 0..100.
C18_CompletionRate ==
  /\ totalItems = 34
  /\ Cardinality(AllItems) = 34
  /\ \A d \in seqRange(localStorage.drafts) :
       LET answered == answeredBy(d.evaluations, d.evaluator) IN
       /\ 2 * 34 * d.completionRate <= 2 * 100 * answered + 34
       /\ 2 * 100 * answered + 34 < 2 * 34 * (d.completionRate + 1)
       /\ d.completionRate \in 0 .. 100

\* C18 witness: a draft of staff with two answered items is stored with rate
\* 6 while its responses also hold three answers of self.
C18_Witness ==
  \E d \in seqRange(localStorage.drafts) :
    /\ d.evaluator = "staff"
    /\ answeredBy(d.evaluations, "staff") = 2
    /\ answeredBy(d.evaluations, "self") = 3
    /\ d.completionRate = 6

\* C19 (as claimed): a raw response outside 0..optionCount of its item makes
\* the score transform fail, so a save that has to transform one stores
\* nothing: no stored record holds, for its evaluator, a response outside the
\* options of its item.
C19_OutOfDomainRejected ==
  \A r \in seqRange(localStorage.records) : \A ci \in AllItems :
    getEvaluation(r.evaluations, r.evaluator, ci[1], ci[2]) \in 0 .. optionCount(ci[1], ci[2])

\* the handlers that resume after awaiting the service
AwaitedOps ==
  { "generateAIAnalysisAwaited", "executeAnalysisAwaited",
    "generateGoalRecommendationsAwaited" }

\* every call the last handler awaited returned, and returned the static
\* fallback content when its request failed
serviceFallsBack ==
  lastOp.op \in AwaitedOps =>
    \A k \in 1 .. Len(lastOp.arg) :
      /\ ~lastOp.arg[k].thrown
      /\ lastOp.arg[k].failure # "none" => lastOp.arg[k].value = "fallback"

\* the flag a handler sets before its own await is clear once none of its
\* activations is suspended
ownFlagsCleared ==
  /\ (\A k \in 1 .. Len(pending) : pending[k].handler # "executeAnalysis") => ~isAnalysisLoading
  /\ (\A k \in 1 .. Len(pending) : pending[k].handler # "generateGoalRecommendations")
       => ~isGenerating

\* C20: every operation of GeminiAIService returns its static fallback content
\* on a missing API key, a request error or an unparseable response and never
\* throws to its caller, and once no request is outstanding the generating
\* and loading flags are all clear
C20_FallbackAndFlagsCleared ==
  /\ serviceFallsBack
  /\ pending = << >> =>
       ~isGenerating /\ ~isGeneratingAnalysis /\ ~isAnalysisLoading

\* the last handler was a save whose write to the store threw
writeFailed ==
  /\ lastOp.op \in { "saveDraft", "autoSave", "saveEvaluationRecord" }
  /\ ~lastOp.ok
  /\ Len(lastOp.arg) = 1

\* C21: a step of saveDraft, of the interval callback or of
\* saveEvaluationRecord whose write to the store fails leaves the responses,
\* the sub-checks, the comments, the selected target, the date and the active
\* evaluator of the session exactly as they were (and the stored and the
\* in-memory collections too).
C21_FailedWriteKeepsSession ==
  [][ (writeFailed' /\ steps' = steps + 1) =>
        /\ evaluations' = evaluations
        /\ detailChecks' = detailChecks
        /\ comments' = comments
        /\ selectedTargetId' = selectedTargetId
        /\ currentDate' = currentDate
        /\ activeEvaluator' = activeEvaluator
        /\ localStorage' = localStorage
        /\ evaluationDrafts' = evaluationDrafts
        /\ evaluationRecords' = evaluationRecords
    ]_vars

\* C21 witness: the interval callback has just failed to write while the
\* session holds a response, a sub-check and a comment that no stored draft has.
C21_Witness ==
  /\ writeFailed
  /\ lastOp.op = "autoSave"
  /\ DOMAIN evaluations # {}
  /\ DOMAIN detailChecks # {}
  /\ DOMAIN comments # {}
  /\ localStorage.drafts = << >>

\* the in-memory drafts with that id
inMemoryDraft(id) == SelectSeq(evaluationDrafts, LAMBDA d : d.id = id)

\* C22: right after saveDraft, the interval callback, finalizeDraft or a draft
\* deletion, the in-memory draft list equals the persisted draft collection,
\* getCurrentDraft and findEvaluationDraft agree on the session's triple, a
\* draft just saved is found under its id in both, and a draft just finalized
\* or deleted is found in neither.
C22_DraftVisibleAtOnce ==
  lastOp.op \in { "saveDraft", "autoSave", "finalizeDraft", "deleteDraft" } =>
    /\ evaluationDrafts = localStorage.drafts
    /\ getCurrentDraft(activeEvaluator) =
         findEvaluationDraft(localStorage.drafts, selectedTargetId, currentDate,
                             activeEvaluator)
    /\ (draftSaveWrote =>
          /\ Len(loadEvaluationDraft(localStorage.drafts, lastOp.id)) = 1
          /\ inMemoryDraft(lastOp.id) = loadEvaluationDraft(localStorage.drafts, lastOp.id))
    /\ (lastOp.op \in { "finalizeDraft", "deleteDraft" } /\ lastOp.ok =>
          /\ loadEvaluationDraft(localStorage.drafts, lastOp.id) = << >>
          /\ inMemoryDraft(lastOp.id) = << >>)

\* C22 witness: the button has just overwritten the stored draft of the
\* session's triple, and getCurrentDraft returns it with the session's
\* responses.
C22_Witness ==
  /\ lastOp.op = "saveDraft" /\ lastOp.ok
  /\ Len(getCurrentDraft(activeEvaluator)) = 1
  /\ getCurrentDraft(activeEvaluator)[1].id = lastOp.id
  /\ getCurrentDraft(activeEvaluator)[1].updatedAt > getCurrentDraft(activeEvaluator)[1].createdAt
  /\ getCurrentDraft(activeEvaluator)[1].evaluations = evaluations
  /\ DOMAIN evaluations # {}

\* C23: a draft id enters the persisted draft collection only by a save of a
\* draft, a stored draft changes only by a save of its own triple, and it
\* leaves the collection only by finalizeDraft of its id, which stores a
\* record with its triple and responses, or by the deletion of its id; saving
\* another triple, loading, saving a record directly, deleting a target and
\* saving a goal leave every stored draft as it is.
C23_DraftLifecycle ==
  [][ /\ \A d \in seqRange(localStorage'.drafts) :
           draftsWithId(localStorage.drafts, d.id) = {} =>
             draftSaveWrote' /\ lastOp'.id = d.id
      /\ \A d \in seqRange(localStorage.drafts) :
           /\ (draftsWithId(localStorage'.drafts, d.id) = {} =>
                 /\ lastOp'.op \in { "finalizeDraft", "deleteDraft" }
                 /\ lastOp'.ok
                 /\ lastOp'.id = d.id
                 /\ IF lastOp'.op = "finalizeDraft"
                      THEN /\ Len(localStorage'.records) = Len(localStorage.records) + 1
                           /\ LET r == localStorage'.records[Len(localStorage'.records)] IN
                                SameTriple(r, d) /\ r.evaluations = d.evaluations
                      ELSE localStorage'.records = localStorage.records)
           /\ (draftsWithId(localStorage'.drafts, d.id) \notin { {}, {d} } =>
                 /\ draftSaveWrote' /\ lastOp'.id = d.id
                 /\ \A x \in draftsWithId(localStorage'.drafts, d.id) : SameTriple(x, d))
    ]_vars

\* C23 witness: a draft has just been finalized into a record while a draft of
\* another triple, saved after it, is still stored.
C23_Witness ==
  /\ lastOp.op = "finalizeDraft" /\ lastOp.ok
  /\ \E r \in seqRange(localStorage.records) : \E d \in seqRange(localStorage.drafts) :
       /\ ~SameTriple(r, d)
       /\ d.createdAt > lastOp.id

writtenSavesReport ==
  [][ (lastOp'.op \in { "saveDraft", "autoSave", "saveEvaluationRecord" }
       /\ lastOp'.ok /\ steps' = steps + 1) =>
        saveMessage' # "" /\ messageTimeouts' = messageTimeouts + 1 ]_vars

\* a shown message is cleared by a timeout
messagesDismissed == (saveMessage # "") ~> (saveMessage = "")

\* C25 (as claimed): every step of saveDraft (from the button or the
\* interval), saveEvaluationRecord and finalizeDraft, succeeding or failing,
\* leaves a message shown with a timeout set for it, and every shown message
\* is eventually cleared by a timeout.
C25_EverySaveReports ==
  /\ [][ (lastOp'.op \in { "saveDraft", "autoSave", "saveEvaluationRecord", "finalizeDraft" }
          /\ steps' = steps + 1) =>
           saveMessage' # "" /\ messageTimeouts' = messageTimeouts + 1 ]_vars
  /\ (saveMessage # "") ~> (saveMessage = "")

\* the stored records with the session's triple
storedCurrentRecords ==
  { r \in seqRange(localStorage.records) :
      /\ r.targetId = selectedTargetId
      /\ r.evaluationDate = currentDate
      /\ r.evaluator = activeEvaluator }

\* C26 (as claimed): in every reachable state getCurrentRecord finds a record
\* for the session's target, date and active evaluator if and only if the
\* persisted record collection holds a record with that triple.
C26_RecordDetection ==
  (getCurrentRecord(activeEvaluator) # << >>) <=> (storedCurrentRecords # {})

\* C27 (as claimed): after the record stamped 1 was loaded into the session
\* and responses were changed, a saveEvaluationRecord that succeeds leaves
\* the record of that id holding the session's responses, sub-checks and
\* comments, with the totalScore and the categoryScores computed from them.
C27_EditOverwritesRecord ==
  [][ (lastOp'.op = "saveEvaluationRecord" /\ lastOp'.ok /\ steps' = steps + 1) =>
        \E r \in seqRange(localStorage'.records) :
          /\ r.id = 1
          /\ r.evaluations = evaluations
          /\ r.subChecks = detailChecks
          /\ r.comments = comments
          /\ r.totalScore = sessionTotalScore(evaluations, activeEvaluator)
          /\ r.categoryScores = sessionCategoryScores(evaluations, activeEvaluator)
    ]_vars

\* the AI results the session shows
aiResults == << aiGeneralObservation, aiConsiderations, aiAnalysisGenerated,
                geminiAnalysisResult, analysisCompleted, aiGoalRecommendations >>

\* the session is the one the suspended handler built its request from
issuedByCurrentSession(awaiting) ==
  /\ awaiting.selectedTargetId = selectedTargetId
  /\ awaiting.currentDate = currentDate
  /\ awaiting.evaluations = evaluations

\* C28 (as claimed): when a suspended AI handler resumes with its result
\* after the selected target, the date or the responses have changed since it
\* built its request, the result is not applied: the AI results the session
\* shows stay as they were.
C28_StaleResultDropped ==
  [][ \A k \in 1 .. Len(pending) :
        (/\ lastOp'.op \in AwaitedOps
         /\ steps' = steps + 1
         /\ pending' = withoutIndex(pending, k)
         /\ ~issuedByCurrentSession(pending[k])) =>
          aiResults' = aiResults
    ]_vars

\* C29 (as claimed): in every reachable state every record of the persisted
\* record collection has the id of a stored target as its targetId.
C29_RecordsReferenceTargets ==
  \A r \in seqRange(localStorage.records) :
    \E t \in seqRange(localStorage.targets) : t.id = r.targetId

\* the stored entity holds the session's triple and the session's responses,
\* sub-checks and comments
holdsSession(e) ==
  /\ e.targetId = selectedTargetId
  /\ e.evaluationDate = currentDate
  /\ e.evaluator = activeEvaluator
  /\ e.evaluations = evaluations
  /\ e.subChecks = detailChecks
  /\ e.comments = comments

\* selecting a target, changing the date and switching the evaluator leave the
\* responses, the sub-checks and the comments as they are
switchKeepsResponses ==
  [][ (lastOp'.op \in { "selectTarget", "setCurrentDate", "setActiveEvaluator" }
       /\ steps' = steps + 1) =>
        /\ evaluations' = evaluations
        /\ detailChecks' = detailChecks
        /\ comments' = comments ]_vars

\* the save buttons store the session's responses under the session's triple
buttonSavesHoldSession ==
  /\ (lastOp.op = "saveDraft" /\ lastOp.ok) => holdsSession(writtenDraft)
  /\ (lastOp.op = "saveEvaluationRecord" /\ lastOp.ok) =>
       holdsSession(localStorage.records[Len(localStorage.records)])

\* C30 (as claimed): selecting another target, changing the date or switching
\* the evaluator leaves the responses, the sub-checks and the comments
\* unchanged, and every save after it (the temporary-save button, the interval
\* callback, the save-evaluation button) stores the session's responses under
\* the target, date and evaluator the session shows.
C30_SwitchThenSave ==
  [][ /\ (lastOp'.op \in { "selectTarget", "setCurrentDate", "setActiveEvaluator" }
          /\ steps' = steps + 1) =>
           /\ evaluations' = evaluations
           /\ detailChecks' = detailChecks
           /\ comments' = comments
      /\ (draftSaveWrote' /\ steps' = steps + 1) =>
           \A d \in draftsWithId(localStorage'.drafts, lastOp'.id) :
             /\ d.targetId = selectedTargetId
             /\ d.evaluationDate = currentDate
             /\ d.evaluator = activeEvaluator
             /\ d.evaluations = evaluations
             /\ d.subChecks = detailChecks
             /\ d.comments = comments
      /\ (lastOp'.op = "saveEvaluationRecord" /\ lastOp'.ok /\ steps' = steps + 1) =>
           LET r == localStorage'.records[Len(localStorage'.records)] IN
             /\ r.targetId = selectedTargetId
             /\ r.evaluationDate = currentDate
             /\ r.evaluator = activeEvaluator
             /\ r.evaluations = evaluations
    ]_vars

====
